---- MODULE Spec2Model ----
(***************************************************************************)
(* Tremor-Pro: the Random Forest tremor classifier pipeline                *)
(* (ai_dashboard/backend/ml) and the FastAPI glue that calls it.           *)
(*                                                                         *)
(* Numbers.  Band powers and motion magnitudes are Python floats.  They    *)
(* are modelled as integers counting multiples of eps = 1e-6, so 0.01 is   *)
(* 10000, 0.3 is 300000 and 5 is 5000000.  Quotients (dom_ratio,           *)
(* spectral_centroid, the fallback confidence) are kept as exact           *)
(* fractions <<numerator, denominator>>.  Floating-point rounding is not   *)
(* modelled.                                                               *)
(***************************************************************************)
EXTENDS Integers, Sequences, FiniteSets, TLC

(***************************************************************************)
(* ml/features.py                                                          *)
(***************************************************************************)
\* eps = 1e-6, the unit every modelled number is counted in
eps == 1

\* NOISE_FLOOR = 0.01
NOISE_FLOOR == 10000

\* mean_norm > 0.7 of the voluntary-movement check
VOLUNTARY_NORM == 700000

\* total < 5 of the voluntary-movement check
VOLUNTARY_TOTAL == 5000000

\* the 0.3 of the dominance rules
DOMINANCE == 300000

\* total > 0.05 of the weak / mixed signal branch
WEAK_TOTAL == 50000

CLASSES == <<"no_tremor", "parkinsonian", "essential", "physiological">>

CLASS_TO_IDX == [c \in {CLASSES[i] : i \in 1..4} |->
                   (CHOOSE i \in 1..4 : CLASSES[i] = c) - 1]

IDX_TO_CLASS == [i \in 0..3 |-> CLASSES[i + 1]]

Max3(x, y, z) == IF x >= y /\ x >= z THEN x ELSE IF y >= z THEN y ELSE z

Min3(x, y, z) == IF x <= y /\ x <= z THEN x ELSE IF y <= z THEN y ELSE z

\* a1 = b1 if b1 > NOISE_FLOOR else 0
ZeroBelowFloor(b) == IF b > NOISE_FLOOR THEN b ELSE 0

\* total = a1 + a2 + a3 of label_window_rule_based
LabelTotal(b1, b2, b3) ==
    ZeroBelowFloor(b1) + ZeroBelowFloor(b2) + ZeroBelowFloor(b3)

VoluntaryMovement_low(total, mean_norm) ==
    mean_norm > VOLUNTARY_NORM /\ total < 500000

\* if mean_norm > 0.7 and total < 5
VoluntaryMovement(total, mean_norm) ==
    mean_norm > VOLUNTARY_NORM /\ total < VOLUNTARY_TOTAL

MaxBandKey_smallest(a1, a2, a3) ==
    IF a1 <= a2 /\ a1 <= a3 THEN "parkinsonian"
    ELSE IF a2 <= a3 THEN "essential"
    ELSE "physiological"

MaxBandKey_last(a1, a2, a3) ==
    IF a3 >= a1 /\ a3 >= a2 THEN "physiological"
    ELSE IF a2 >= a1 THEN "essential"
    ELSE "parkinsonian"

\* max(bands, key=bands.get): the first key, in insertion order, of the
\* largest value
MaxBandKey(a1, a2, a3) ==
    IF a1 >= a2 /\ a1 >= a3 THEN "parkinsonian"
    ELSE IF a2 >= a3 THEN "essential"
    ELSE "physiological"

BandRules_swapped(a1, a2, a3, total) ==
    IF a1 > a2 /\ a1 > a3 /\ a1 > DOMINANCE THEN "parkinsonian"
    ELSE IF a2 > a1 /\ a2 > a3 /\ a2 > DOMINANCE THEN "physiological"
    ELSE IF a3 > a1 /\ a3 > a2 /\ a3 > DOMINANCE THEN "essential"
    ELSE IF total > WEAK_TOTAL THEN MaxBandKey(a1, a2, a3)
    ELSE "no_tremor"

\* the if / elif / elif / else chain that closes label_window_rule_based
BandRules(a1, a2, a3, total) ==
    IF a1 > a2 /\ a1 > a3 /\ a1 > DOMINANCE THEN "parkinsonian"
    ELSE IF a2 > a1 /\ a2 > a3 /\ a2 > DOMINANCE THEN "essential"
    ELSE IF a3 > a1 /\ a3 > a2 /\ a3 > DOMINANCE THEN "physiological"
    ELSE IF total > WEAK_TOTAL THEN MaxBandKey(a1, a2, a3)
    ELSE "no_tremor"

label_window_rule_based(b1, b2, b3, mean_norm) ==
    LET a1 == ZeroBelowFloor(b1)
        a2 == ZeroBelowFloor(b2)
        a3 == ZeroBelowFloor(b3)
        total == a1 + a2 + a3
    IN  IF total < NOISE_FLOOR THEN "no_tremor"
        ELSE IF VoluntaryMovement(total, mean_norm) THEN "no_tremor"
        ELSE BandRules(a1, a2, a3, total)

extract_features_single_noeps(b1, b2, b3, mean_norm) ==
    LET total == b1 + b2 + b3
    IN  [b1 |-> b1, b2 |-> b2, b3 |-> b3,
         total_power |-> total,
         meanNorm |-> mean_norm,
         dom_ratio |-> <<Max3(b1, b2, b3), Min3(b1, b2, b3)>>,
         spectral_centroid |-> <<0 * b1 + 1 * b2 + 2 * b3, total>>]

extract_features_single_upweights(b1, b2, b3, mean_norm) ==
    LET total == b1 + b2 + b3
    IN  [b1 |-> b1, b2 |-> b2, b3 |-> b3,
         total_power |-> total,
         meanNorm |-> mean_norm,
         dom_ratio |-> <<Max3(b1, b2, b3), Min3(b1, b2, b3) + eps>>,
         spectral_centroid |-> <<1 * b1 + 2 * b2 + 3 * b3, total + eps>>]

\* extract_features_single: the 7 features, by name.  A quotient whose
\* denominator is 0 stands for numpy's inf / nan (a warning, no exception).
extract_features_single(b1, b2, b3, mean_norm) ==
    LET total == b1 + b2 + b3
    IN  [b1 |-> b1, b2 |-> b2, b3 |-> b3,
         total_power |-> total,
         meanNorm |-> mean_norm,
         dom_ratio |-> <<Max3(b1, b2, b3), Min3(b1, b2, b3) + eps>>,
         spectral_centroid |-> <<0 * b1 + 1 * b2 + 2 * b3, total + eps>>]


(***************************************************************************)
(* Window dicts of classify_batch.  A JSON value is a number, a string     *)
(* that is not a number ("abc") or null; a window dict maps some of the    *)
(* keys b1, b2, b3, meanNorm to JSON values.                               *)
(***************************************************************************)
Num(n) == [t |-> "num", v |-> n]

NonNumeric == [t |-> "str", v |-> 0]

Null == [t |-> "null", v |-> 0]

\* w.get(key, 0)
DictGet(w, key) == IF key \in DOMAIN w THEN w[key] ELSE Num(0)

\* the exception float(x) raises, "none" when it returns
FloatExc(x) ==
    CASE x.t = "num" -> "none"
      [] x.t = "str" -> "ValueError"
      [] x.t = "null" -> "TypeError"

\* the value float(x) returns when it does not raise
FloatOf(x) == x.v

WindowKeys == <<"b1", "b2", "b3", "meanNorm">>

\* the exception the four float(w.get(...)) of one window raise, in the
\* order the keyword arguments are evaluated
WindowExc(w) ==
    LET bad == {k \in 1..4 : FloatExc(DictGet(w, WindowKeys[k])) # "none"}
    IN  IF bad = {} THEN "none"
        ELSE FloatExc(DictGet(w, WindowKeys[CHOOSE k \in bad :
                                             \A j \in bad : k <= j]))

BatchRow_snake(w) ==
    extract_features_single(FloatOf(DictGet(w, "b1")),
                            FloatOf(DictGet(w, "b2")),
                            FloatOf(DictGet(w, "b3")),
                            FloatOf(DictGet(w, "mean_norm")))

\* one rows.append(extract_features_single(b1=float(w.get("b1", 0)), ...))
BatchRow(w) ==
    extract_features_single(FloatOf(DictGet(w, "b1")),
                            FloatOf(DictGet(w, "b2")),
                            FloatOf(DictGet(w, "b3")),
                            FloatOf(DictGet(w, "meanNorm")))

\* extract_features_batch: the rows, or the exception of the first window
\* that cannot be converted
extract_features_batch(windows) ==
    LET bad == {i \in 1..Len(windows) : WindowExc(windows[i]) # "none"}
    IN  IF bad = {}
        THEN [exc |-> "none",
              rows |-> [i \in 1..Len(windows) |-> BatchRow(windows[i])]]
        ELSE [exc |-> WindowExc(windows[CHOOSE i \in bad :
                                          \A j \in bad : i <= j]),
              rows |-> <<>>]


(***************************************************************************)
(* ml/model.py: the classifier object and the two classification paths.    *)
(*                                                                         *)
(* A fitted RandomForestClassifier is opaque library state.  It is         *)
(* modelled as a record [ver, forest, obj]: ver counts the training run    *)
(* that produced it, forest names the decision function the fit arrived    *)
(* at, obj tells apart the Python objects that separate joblib.load calls  *)
(* create.  Class probabilities are counted in tenths.                     *)
(***************************************************************************)
None == [ver |-> -1, forest |-> "none", obj |-> 0]

Forests == {"fitted", "tied"}

ClassSet == {CLASSES[i] : i \in 1..4}

\* one row of clf.predict_proba: "fitted" has learned the weak labels,
\* "tied" is a forest whose trees split evenly between classes
TreeVotes(forest, f) ==
    IF forest = "fitted"
    THEN LET l == label_window_rule_based(f.b1, f.b2, f.b3, f.meanNorm)
         IN  [i \in 1..4 |-> IF CLASSES[i] = l THEN 7 ELSE 1]
    ELSE IF f.total_power < NOISE_FLOOR THEN <<5, 5, 0, 0>>
    ELSE IF f.b1 >= f.b2 /\ f.b1 >= f.b3 THEN <<0, 5, 5, 0>>
    ELSE <<1, 3, 3, 3>>

\* clf.predict_proba(X)
predict_proba(clf, X) == [i \in 1..Len(X) |-> TreeVotes(clf.forest, X[i])]

ArgMax_last(p) ==
    (CHOOSE i \in DOMAIN p : /\ \A j \in DOMAIN p : p[j] <= p[i]
                             /\ \A j \in DOMAIN p : j > i => p[j] < p[i]) - 1

\* int(np.argmax(p)): the lowest 0-based index holding the largest value
ArgMax(p) ==
    (CHOOSE i \in DOMAIN p : /\ \A j \in DOMAIN p : p[j] <= p[i]
                             /\ \A j \in DOMAIN p : j < i => p[j] < p[i]) - 1

ModelClassify_typed(clf, b1, b2, b3, mean_norm) ==
    LET features == <<extract_features_single(b1, b2, b3, mean_norm)>>
        proba == predict_proba(clf, features)[1]
        pred_idx == ArgMax(proba)
        pred_label == IDX_TO_CLASS[pred_idx]
    IN  [kind |-> "window",
         prediction |-> pred_label,
         tremor_type |-> pred_label,
         is_tremor |-> pred_label # "no_tremor",
         confidence |-> <<proba[pred_idx + 1], 10>>,
         probabilities |-> [c \in ClassSet |->
                              <<proba[CLASS_TO_IDX[c] + 1], 10>>],
         model_version |-> "rf_v1"]

\* lines 87-99 of classify_window, the model path
ModelClassify(clf, b1, b2, b3, mean_norm) ==
    LET features == <<extract_features_single(b1, b2, b3, mean_norm)>>
        proba == predict_proba(clf, features)[1]
        pred_idx == ArgMax(proba)
        pred_label == IDX_TO_CLASS[pred_idx]
    IN  [kind |-> "window",
         prediction |-> pred_label,
         tremor_type |-> IF pred_label # "no_tremor" THEN pred_label
                         ELSE "none",
         is_tremor |-> pred_label # "no_tremor",
         confidence |-> <<proba[pred_idx + 1], 10>>,
         probabilities |-> [c \in ClassSet |->
                              <<proba[CLASS_TO_IDX[c] + 1], 10>>],
         model_version |-> "rf_v1"]

FallbackClassify_swapped(b1, b2, b3, mean_norm) ==
    LET label == label_window_rule_based(b3, b2, b1, mean_norm)
    IN  [kind |-> "window",
         prediction |-> label,
         tremor_type |-> IF label # "no_tremor" THEN label ELSE "none",
         is_tremor |-> label # "no_tremor",
         confidence |-> <<1, 1>>,
         probabilities |-> [c \in ClassSet |->
                              IF c = label THEN <<9, 10>> ELSE <<1, 30>>],
         model_version |-> "rule_based_fallback"]

FallbackClassify_flat(b1, b2, b3, mean_norm) ==
    LET label == label_window_rule_based(b1, b2, b3, mean_norm)
        total == b1 + b2 + b3
        top == Max3(b1, b2, b3)
        conf == IF total > 10000 THEN <<top, total + 1>> ELSE <<1, 1>>
    IN  [kind |-> "window",
         prediction |-> label,
         tremor_type |-> IF label # "no_tremor" THEN label ELSE "none",
         is_tremor |-> label # "no_tremor",
         confidence |-> IF conf[1] > conf[2] THEN <<1, 1>> ELSE conf,
         probabilities |-> [c \in ClassSet |->
                              IF c = label THEN <<9, 10>> ELSE <<1, 10>>],
         model_version |-> "rule_based_fallback"]

\* _fallback_classify
FallbackClassify(b1, b2, b3, mean_norm) ==
    LET label == label_window_rule_based(b1, b2, b3, mean_norm)
        total == b1 + b2 + b3
        top == Max3(b1, b2, b3)
        conf == IF total > 10000 THEN <<top, total + 1>> ELSE <<1, 1>>
    IN  [kind |-> "window",
         prediction |-> label,
         tremor_type |-> IF label # "no_tremor" THEN label ELSE "none",
         is_tremor |-> label # "no_tremor",
         confidence |-> IF conf[1] > conf[2] THEN <<1, 1>> ELSE conf,
         probabilities |-> [c \in ClassSet |->
                              IF c = label THEN <<9, 10>> ELSE <<1, 30>>],
         model_version |-> "rule_based_fallback"]

\* classify_window, after clf = get_classifier() has returned
classify_window(clf, w) ==
    IF clf = None THEN FallbackClassify(w[1], w[2], w[3], w[4])
    ELSE ModelClassify(clf, w[1], w[2], w[3], w[4])

RECURSIVE SumColumn(_, _, _)
\* proba[:, c].sum() over rows 1..n
SumColumn(proba, c, n) ==
    IF n = 0 THEN 0 ELSE proba[n][c] + SumColumn(proba, c, n - 1)

BatchAggregate_perclass(clf, windows, X) ==
    LET n == Len(windows)
        proba == predict_proba(clf, X)
        preds == [i \in 1..n |-> ArgMax(proba[i])]
        unique == {preds[i] : i \in 1..n}
        count(u) == Cardinality({i \in 1..n : preds[i] = u})
        dominant_idx == CHOOSE u \in unique :
                           /\ \A v \in unique : count(v) <= count(u)
                           /\ \A v \in unique : v < u => count(v) < count(u)
        dominant_class == IDX_TO_CLASS[dominant_idx]
    IN  [kind |-> "batch",
         n_windows |-> n,
         dominant_prediction |-> dominant_class,
         is_tremor |-> dominant_class # "no_tremor",
         tremor_fraction |-> <<Cardinality({i \in 1..n : preds[i] # 0}), n>>,
         class_counts |-> [c \in {IDX_TO_CLASS[u] : u \in unique} |->
                             count(CLASS_TO_IDX[c])],
         mean_probabilities |-> [c \in ClassSet |->
                 <<SumColumn(proba, CLASS_TO_IDX[c] + 1, n), 10 * n>>],
         per_window |-> [i \in 1..Cardinality(unique) |->
                 [prediction |-> IDX_TO_CLASS[preds[i]],
                  confidence |-> <<proba[i][preds[i] + 1], 10>>]],
         model_version |-> "rf_v1"]

BatchAggregate_lasttie(clf, windows, X) ==
    LET n == Len(windows)
        proba == predict_proba(clf, X)
        preds == [i \in 1..n |-> ArgMax(proba[i])]
        unique == {preds[i] : i \in 1..n}
        count(u) == Cardinality({i \in 1..n : preds[i] = u})
        dominant_idx == CHOOSE u \in unique :
                           /\ \A v \in unique : count(v) <= count(u)
                           /\ \A v \in unique : v > u => count(v) < count(u)
        dominant_class == IDX_TO_CLASS[dominant_idx]
    IN  [kind |-> "batch",
         n_windows |-> n,
         dominant_prediction |-> dominant_class,
         is_tremor |-> dominant_class # "no_tremor",
         tremor_fraction |-> <<Cardinality({i \in 1..n : preds[i] # 0}), n>>,
         class_counts |-> [c \in {IDX_TO_CLASS[u] : u \in unique} |->
                             count(CLASS_TO_IDX[c])],
         mean_probabilities |-> [c \in ClassSet |->
                 <<SumColumn(proba, CLASS_TO_IDX[c] + 1, n), 10 * n>>],
         per_window |-> [i \in 1..n |->
                 [prediction |-> IDX_TO_CLASS[preds[i]],
                  confidence |-> <<proba[i][preds[i] + 1], 10>>]],
         model_version |-> "rf_v1"]

BatchAggregate_quiet(clf, windows, X) ==
    LET n == Len(windows)
        proba == predict_proba(clf, X)
        preds == [i \in 1..n |-> ArgMax(proba[i])]
        unique == {preds[i] : i \in 1..n}
        count(u) == Cardinality({i \in 1..n : preds[i] = u})
        dominant_idx == CHOOSE u \in unique :
                           /\ \A v \in unique : count(v) <= count(u)
                           /\ \A v \in unique : v < u => count(v) < count(u)
        dominant_class == IDX_TO_CLASS[dominant_idx]
    IN  [kind |-> "batch",
         n_windows |-> n,
         dominant_prediction |-> dominant_class,
         is_tremor |-> dominant_class # "no_tremor",
         tremor_fraction |-> <<Cardinality({i \in 1..n : preds[i] = 0}), n>>,
         class_counts |-> [c \in {IDX_TO_CLASS[u] : u \in unique} |->
                             count(CLASS_TO_IDX[c])],
         mean_probabilities |-> [c \in ClassSet |->
                 <<SumColumn(proba, CLASS_TO_IDX[c] + 1, n), 10 * n>>],
         per_window |-> [i \in 1..n |->
                 [prediction |-> IDX_TO_CLASS[preds[i]],
                  confidence |-> <<proba[i][preds[i] + 1], 10>>]],
         model_version |-> "rf_v1"]

\* lines 116-144 of classify_batch, given the feature matrix X
BatchAggregate(clf, windows, X) ==
    LET n == Len(windows)
        proba == predict_proba(clf, X)
        preds == [i \in 1..n |-> ArgMax(proba[i])]
        unique == {preds[i] : i \in 1..n}
        count(u) == Cardinality({i \in 1..n : preds[i] = u})
        dominant_idx == CHOOSE u \in unique :
                           /\ \A v \in unique : count(v) <= count(u)
                           /\ \A v \in unique : v < u => count(v) < count(u)
        dominant_class == IDX_TO_CLASS[dominant_idx]
    IN  [kind |-> "batch",
         n_windows |-> n,
         dominant_prediction |-> dominant_class,
         is_tremor |-> dominant_class # "no_tremor",
         tremor_fraction |-> <<Cardinality({i \in 1..n : preds[i] # 0}), n>>,
         class_counts |-> [c \in {IDX_TO_CLASS[u] : u \in unique} |->
                             count(CLASS_TO_IDX[c])],
         mean_probabilities |-> [c \in ClassSet |->
                 <<SumColumn(proba, CLASS_TO_IDX[c] + 1, n), 10 * n>>],
         per_window |-> [i \in 1..n |->
                 [prediction |-> IDX_TO_CLASS[preds[i]],
                  confidence |-> <<proba[i][preds[i] + 1], 10>>]],
         model_version |-> "rf_v1"]

\* classify_batch, after clf = get_classifier() has returned
classify_batch(clf, windows) ==
    IF clf = None \/ Len(windows) = 0
    THEN [kind |-> "error", error |-> "No model loaded or empty input"]
    ELSE LET fx == extract_features_batch(windows)
         IN  IF fx.exc # "none" THEN [kind |-> "raise", exc |-> fx.exc]
             ELSE BatchAggregate(clf, windows, fx.rows)

\* the matrix handed to clf.predict_proba by either path, <<>> when the
\* call never gets there
FeaturesUsed(req, clf) ==
    IF clf = None THEN <<>>
    ELSE IF req.op = "classify_window"
    THEN <<extract_features_single(req.w[1], req.w[2], req.w[3], req.w[4])>>
    ELSE IF req.op = "classify_batch" /\ Len(req.ws) > 0
    THEN extract_features_batch(req.ws).rows
    ELSE <<>>


(***************************************************************************)
(* Bounds and input sets                                                   *)
(***************************************************************************)
\* request handlers of the backend process that may be in flight
NumHandlers == 2

\* training runs (python -m ml.train_model) after the backend has started
MaxTrainings == 1

\* longest window list sent to classify_batch
MaxBatch == 3

\* largest n_per_class given to generate_synthetic_data
MaxPerClass == 6

\* most rows of the sessions table when a training run reads it
MaxRows == 2

\* most sessions the backend stores in a run
MaxSessions == 2

\* (0,0,0,0), (1.0,0.1,0.1,0.9) and (5.0,0.5,0.3,0.2)
ClassifyWindows ==
    {<<0, 0, 0, 0>>,
     <<1000000, 100000, 100000, 900000>>,
     <<5000000, 500000, 300000, 200000>>}

\* {"b1":0.1,"b2":1.0,"b3":0.1,"meanNorm":0.2}
FullDict ==
    [b1 |-> Num(100000), b2 |-> Num(1000000), b3 |-> Num(100000),
     meanNorm |-> Num(200000)]

\* {"b1":0.005,"b3":0.02}: a quiet window, b2 and meanNorm left out
MissingDict == [k \in {"b1", "b3"} |->
                  IF k = "b1" THEN Num(5000) ELSE Num(20000)]

\* {"b1":"abc","b2":1.0,"b3":0.1,"meanNorm":0.2}
NonNumericDict ==
    [b1 |-> NonNumeric, b2 |-> Num(1000000), b3 |-> Num(100000),
     meanNorm |-> Num(200000)]

BatchDicts == {FullDict, MissingDict, NonNumericDict}

BatchLists == UNION {[1..n -> BatchDicts] : n \in 0..MaxBatch}

NoReq == [op |-> "none", w |-> <<0, 0, 0, 0>>, ws |-> <<>>]

StartupReq == [op |-> "startup", w |-> <<0, 0, 0, 0>>, ws |-> <<>>]

\* GET /ml/status
StatusReq == [op |-> "status", w |-> <<0, 0, 0, 0>>, ws |-> <<>>]

Requests ==
    {[op |-> "classify_window", w |-> w, ws |-> <<>>] : w \in ClassifyWindows}
    \cup {[op |-> "classify_batch", w |-> <<0, 0, 0, 0>>, ws |-> ws] :
            ws \in BatchLists}
    \cup {StatusReq}

(***************************************************************************)
(* State                                                                   *)
(***************************************************************************)
VARIABLES
    artifact,      \* the file MODEL_PATH: absent, half written or complete
    trainer,       \* the training job, a separate process
    cached_model,  \* _cached_model of ml/model.py
    loads,         \* joblib.load calls that returned a model
    loop,          \* the handler the event loop is running, -1 when idle
    hs,            \* on_startup (handler 0) and the request handlers
    lw,            \* a window given to label_window_rule_based
    lres,          \* the label it returned
    fws,           \* windows given to the feature extraction call sites
    fout,          \* the feature vectors each call site computed
    gen,           \* a run of generate_synthetic_data: its locals and position
    db,            \* the file DB_PATH and the rows of its sessions table
    tm,            \* a run of train_model.main: its locals and position
    backends,      \* the two MedGemma backends: unset, or set and up or down
    call,          \* the report request in flight: its locals and position
    out            \* the response to the last finished profile request

vars == <<artifact, trainer, cached_model, loads, loop, hs,
          lw, lres, fws, fout, gen, db, tm, backends, call, out>>

serviceVars == <<artifact, trainer, cached_model, loads, loop, hs>>

labelVars == <<lw, lres>>

featVars == <<fws, fout>>

synthVars == <<gen>>

profileVars == <<db, tm, backends, call, out>>

Handlers == 0..NumHandlers

Absent == [st |-> "absent", model |-> None]

Fresh ==
    [pc |-> "idle", req |-> NoReq, clf |-> None, hit |-> FALSE,
     exists |-> "unchecked", load |-> "none", X |-> <<>>,
     res |-> [kind |-> "none"], ready |-> "unchecked"]

\* the process as uvicorn starts it: on_startup is the first thing the
\* event loop runs; the artifact may be left from an earlier training run
ServiceInit ==
    /\ artifact \in {Absent} \cup
          {[st |-> "complete",
            model |-> [ver |-> 0, forest |-> f, obj |-> 0]] : f \in Forests}
    /\ trainer = [pc |-> "idle", runs |-> 0, model |-> None]
    /\ cached_model = None
    /\ loads = 0
    /\ loop = 0
    /\ hs = [h \in Handlers |->
               IF h = 0 THEN [Fresh EXCEPT !.pc = "gc_cache",
                                           !.req = StartupReq]
               ELSE Fresh]

LabelIdle == lw = <<0, 0, 0, 0>> /\ lres = "none"

FeatIdle == fws = <<>> /\ fout = [site \in {} |-> <<>>]

\* generate_synthetic_data not called
SynthOff ==
    [pc |-> "off", n |-> 0, noise_std |-> 0, seed |-> 0, rng |-> 0,
     cls |-> 0, k |-> 0, X |-> <<>>, y |-> <<>>, src |-> <<>>,
     run |-> 0, first |-> <<>>]

SynthIdle == gen = SynthOff

\* no database file
NoDb == [file |-> FALSE, rows |-> <<>>, seq |-> 0]

\* train_model.main not started
TrainOff ==
    [pc |-> "off", augment |-> FALSE, real |-> <<>>, X |-> <<>>, y |-> <<>>,
     fitted |-> <<>>, saved |-> FALSE]

\* no report request in flight
NoCall ==
    [op |-> "none", pc |-> "idle", sid |-> "", ts |-> 0, tried |-> <<>>,
     text |-> "none"]

NoOut == [kind |-> "none"]

ProfileIdle ==
    /\ db = NoDb
    /\ tm = TrainOff
    /\ backends = [kaggle |-> "unset", hf |-> "unset"]
    /\ call = NoCall
    /\ out = NoOut

Init == ServiceInit /\ LabelIdle /\ FeatIdle /\ SynthIdle /\ ProfileIdle


(***************************************************************************)
(* The training job: save_model of ml/train_model.py.  joblib.dump opens   *)
(* MODEL_PATH itself for writing, which truncates the old artifact, and    *)
(* streams the pickle into it; the file is complete when dump returns.     *)
(***************************************************************************)
SaveOpen ==
    /\ trainer.pc = "idle"
    /\ trainer.runs < MaxTrainings
    /\ \E f \in Forests :
         LET m == [ver |-> trainer.runs + 1, forest |-> f, obj |-> 0]
         IN  /\ trainer' = [pc |-> "writing", runs |-> trainer.runs + 1,
                            model |-> m]
             /\ artifact' = [st |-> "partial", model |-> m]
    /\ UNCHANGED <<cached_model, loads, loop, hs, labelVars, featVars, synthVars,
                   profileVars>>

SaveClose ==
    /\ trainer.pc = "writing"
    /\ trainer' = [trainer EXCEPT !.pc = "idle"]
    /\ artifact' = [st |-> "complete", model |-> trainer.model]
    /\ UNCHANGED <<cached_model, loads, loop, hs, labelVars, featVars, synthVars,
                   profileVars>>

\* the artifact file is removed by whoever administers the models directory
DeleteArtifact ==
    /\ trainer.pc = "idle"
    /\ artifact.st = "complete"
    /\ artifact' = Absent
    /\ UNCHANGED <<trainer, cached_model, loads, loop, hs,
                   labelVars, featVars, synthVars,
                   profileVars>>

(***************************************************************************)
(* The backend process.  on_startup and every route are `async def`        *)
(* coroutines that call into ml/model.py without awaiting: the event loop  *)
(* runs one of them from its first line to its return before it runs the   *)
(* next.  The training job is another process and interleaves freely.      *)
(***************************************************************************)
LoopFree_threads == TRUE

\* the event loop picks a coroutine only when it is running none
LoopFree == loop = -1

CacheHit_never == FALSE

\* if _cached_model is not None
CacheHit == cached_model # None

\* a request reaches the server
Arrive(h) ==
    /\ h # 0
    /\ hs[h].pc = "idle"
    /\ hs' = [hs EXCEPT ![h] = [Fresh EXCEPT !.pc = "pending"]]
    /\ UNCHANGED <<artifact, trainer, cached_model, loads, loop,
                   labelVars, featVars, synthVars,
                   profileVars>>

\* the event loop starts the route's coroutine: ml_classify_single calls
\* classify_window, ml_classify_batch calls classify_batch, and both start
\* with get_classifier; ml_status starts with is_model_available
Start(h) ==
    /\ hs[h].pc = "pending"
    /\ LoopFree
    /\ \E req \in Requests :
         hs' = [hs EXCEPT ![h] = [Fresh EXCEPT
                   !.pc = IF req.op = "status" THEN "st_available"
                          ELSE "gc_cache",
                   !.req = req]]
    /\ loop' = h
    /\ UNCHANGED <<artifact, trainer, cached_model, loads,
                   labelVars, featVars, synthVars,
                   profileVars>>

\* is_model_available(): MODEL_PATH.exists(), whatever the file holds
is_model_available == artifact.st # "absent"

\* ml_status, lines 977-978: get_classifier is called only if the file
\* exists
StatusAvailable(h) ==
    /\ hs[h].pc = "st_available"
    /\ IF is_model_available
       THEN hs' = [hs EXCEPT ![h].pc = "gc_cache", ![h].ready = "yes"]
       ELSE hs' = [hs EXCEPT ![h].pc = "body", ![h].clf = None,
                             ![h].ready = "no"]
    /\ UNCHANGED <<artifact, trainer, cached_model, loads, loop,
                   labelVars, featVars, synthVars,
                   profileVars>>

\* get_classifier, lines 43-44
GcCache(h) ==
    /\ hs[h].pc = "gc_cache"
    /\ IF CacheHit
       THEN hs' = [hs EXCEPT ![h].pc = "body", ![h].clf = cached_model,
                             ![h].hit = TRUE]
       ELSE hs' = [hs EXCEPT ![h].pc = "gc_exists"]
    /\ UNCHANGED <<artifact, trainer, cached_model, loads, loop,
                   labelVars, featVars, synthVars,
                   profileVars>>

GcExists_sticky(h) ==
    /\ hs[h].pc = "gc_exists"
    /\ IF artifact.st = "absent"
       THEN /\ hs' = [hs EXCEPT ![h].pc = "body", ![h].clf = None,
                                ![h].exists = "no"]
            /\ cached_model' = [None EXCEPT !.forest = "unavailable"]
       ELSE /\ hs' = [hs EXCEPT ![h].pc = "gc_load", ![h].exists = "yes"]
            /\ UNCHANGED cached_model
    /\ UNCHANGED <<artifact, trainer, loads, loop,
                   labelVars, featVars, synthVars,
                   profileVars>>

\* get_classifier, lines 46-49
GcExists(h) ==
    /\ hs[h].pc = "gc_exists"
    /\ IF artifact.st = "absent"
       THEN hs' = [hs EXCEPT ![h].pc = "body", ![h].clf = None,
                             ![h].exists = "no"]
       ELSE hs' = [hs EXCEPT ![h].pc = "gc_load", ![h].exists = "yes"]
    /\ UNCHANGED <<artifact, trainer, cached_model, loads, loop,
                   labelVars, featVars, synthVars,
                   profileVars>>

\* get_classifier, lines 51-55: joblib.load raises on a file that has gone
\* (FileNotFoundError) or that ends before the pickle does (EOFError); the
\* exception leaves get_classifier and the function that called it
GcLoad(h) ==
    /\ hs[h].pc = "gc_load"
    /\ IF artifact.st = "complete"
       THEN LET m == [artifact.model EXCEPT !.obj = loads + 1]
            IN  /\ cached_model' = m
                /\ loads' = loads + 1
                /\ hs' = [hs EXCEPT ![h].pc = "body", ![h].clf = m,
                                    ![h].load = "complete"]
       ELSE /\ hs' = [hs EXCEPT
                 ![h].pc = "done",
                 ![h].load = artifact.st,
                 ![h].res = [kind |-> "raise",
                             exc |-> IF artifact.st = "absent"
                                     THEN "FileNotFoundError"
                                     ELSE "EOFError"]]
            /\ UNCHANGED <<cached_model, loads>>
    /\ UNCHANGED <<artifact, trainer, loop, labelVars, featVars, synthVars,
                   profileVars>>

\* what the caller of get_classifier does with clf
Body(h) ==
    /\ hs[h].pc = "body"
    /\ LET req == hs[h].req
           clf == hs[h].clf
           res == CASE req.op = "classify_window" ->
                         classify_window(clf, req.w)
                    [] req.op = "classify_batch" ->
                         classify_batch(clf, req.ws)
                    [] req.op = "startup" ->
                         [kind |-> "startup", loaded |-> clf # None]
                    [] req.op = "status" ->
                         [kind |-> "status",
                          available |-> hs[h].ready = "yes",
                          model_loaded |-> clf # None]
       IN  hs' = [hs EXCEPT ![h].pc = "done", ![h].res = res,
                            ![h].X = FeaturesUsed(req, clf)]
    /\ UNCHANGED <<artifact, trainer, cached_model, loads, loop,
                   labelVars, featVars, synthVars,
                   profileVars>>

\* the coroutine returns (or its exception becomes a 500 response) and the
\* event loop is free again; an exception out of on_startup instead stops
\* the server before it serves anything.  What on_startup logged stays on
\* the console.
Respond(h) ==
    /\ hs[h].pc = "done"
    /\ ~(h = 0 /\ hs[h].res.kind = "raise")
    /\ hs' = [hs EXCEPT ![h] = IF h = 0
                               THEN [Fresh EXCEPT !.pc = "exited",
                                                  !.res = hs[0].res]
                               ELSE Fresh]
    /\ loop' = -1
    /\ UNCHANGED <<artifact, trainer, cached_model, loads,
                   labelVars, featVars, synthVars,
                   profileVars>>

Next ==
    \/ SaveOpen
    \/ SaveClose
    \/ DeleteArtifact
    \/ \E h \in Handlers : Arrive(h)
    \/ \E h \in Handlers : Start(h)
    \/ \E h \in Handlers : StatusAvailable(h)
    \/ \E h \in Handlers : GcCache(h)
    \/ \E h \in Handlers : GcExists(h)
    \/ \E h \in Handlers : GcLoad(h)
    \/ \E h \in Handlers : Body(h)
    \/ \E h \in Handlers : Respond(h)

Spec == Init /\ [][Next]_vars


(***************************************************************************)
(* label_window_rule_based on its own: Init draws a window, the one        *)
(* action labels it.  Band values sit on and around every threshold of     *)
(* the function; -0.1 is a reading no sensor produces but no caller        *)
(* rejects.                                                                *)
(***************************************************************************)
LabelBands ==
    {-100000, 0, 5000, 10000, 10001, 50000, 100000, 300000, 300001,
     500000, 1000000, 5000000}

LabelNorms == {0, 200000, 700000, 700001, 900000}

\* a backend that has served nothing, for the runs that only exercise the
\* pure functions
ServiceOff ==
    /\ artifact = Absent
    /\ trainer = [pc |-> "idle", runs |-> 0, model |-> None]
    /\ cached_model = None
    /\ loads = 0
    /\ loop = -1
    /\ hs = [h \in Handlers |-> Fresh]

InitLabel ==
    /\ ServiceOff
    /\ FeatIdle
    /\ SynthIdle
    /\ ProfileIdle
    /\ lw \in LabelBands \X LabelBands \X LabelBands \X LabelNorms
    /\ lres = "none"

LabelWindow ==
    /\ lres = "none"
    /\ lres' = label_window_rule_based(lw[1], lw[2], lw[3], lw[4])
    /\ UNCHANGED <<lw, serviceVars, featVars, synthVars,
                   profileVars>>

NextLabel == LabelWindow

SpecLabel == InitLabel /\ [][NextLabel]_vars

(***************************************************************************)
(* The four places that build a feature vector, on the same windows:       *)
(* classify_window, classify_batch (through extract_features_batch),       *)
(* generate_synthetic_data and load_real_data_from_db.                     *)
(***************************************************************************)
FeatWindows ==
    {<<0, 0, 0, 0>>,
     <<1000000, 1000000, 1000000, 0>>,
     <<20000, 20000, 20000, 50000>>,
     <<1000000, 100000, 100000, 900000>>,
     <<100000, 1000000, 100000, 200000>>,
     <<5000, 20000, 30000, 100000>>,
     <<5000000, 500000, 300000, 200000>>}

Sites == {"classify_window", "classify_batch", "synthetic", "real"}

\* the JSON object a client sends for a window; meanNorm is optional and
\* left out when it is 0
WindowDict(w) ==
    IF w[4] = 0
    THEN [k \in {"b1", "b2", "b3"} |->
            Num(CASE k = "b1" -> w[1] [] k = "b2" -> w[2] [] k = "b3" -> w[3])]
    ELSE [b1 |-> Num(w[1]), b2 |-> Num(w[2]), b3 |-> Num(w[3]),
          meanNorm |-> Num(w[4])]

\* the raw_summary_json of a stored session with these mean band powers
SessionSummary(w) ==
    [frequency_profile |->
        [band_power_mean |->
            [hz_4_6 |-> Num(w[1]), hz_6_8 |-> Num(w[2]),
             hz_8_12 |-> Num(w[3])]],
     intensity_profile |-> [rms_mean |-> Num(w[4])]]

\* max(0, x)
Clamp0(x) == IF x > 0 THEN x ELSE 0

\* generate_synthetic_data, lines 125-131: clamp the noisy draw, extract
SyntheticRow(draw) ==
    extract_features_single(Clamp0(draw[1]), Clamp0(draw[2]),
                            Clamp0(draw[3]), Clamp0(draw[4]))

\* load_real_data_from_db, lines 210-225, for one parsed row: nothing for
\* a session whose three band powers are all 0, else its label and features
RealSample(raw) ==
    LET bp == raw.frequency_profile.band_power_mean
        b1 == FloatOf(DictGet(bp, "hz_4_6"))
        b2 == FloatOf(DictGet(bp, "hz_6_8"))
        b3 == FloatOf(DictGet(bp, "hz_8_12"))
        rms == FloatOf(DictGet(raw.intensity_profile, "rms_mean"))
    IN  IF b1 = 0 /\ b2 = 0 /\ b3 = 0 THEN <<>>
        ELSE <<[label |-> CLASS_TO_IDX[label_window_rule_based(b1, b2, b3, rms)],
                feats |-> extract_features_single(b1, b2, b3, rms)]>>

InitFeat ==
    /\ ServiceOff
    /\ LabelIdle
    /\ SynthIdle
    /\ ProfileIdle
    /\ fws \in UNION {[1..n -> FeatWindows] : n \in 1..MaxBatch}
    /\ fout = [site \in Sites |-> <<>>]

\* classify_window, line 87, called once per window
FeatClassifyWindow ==
    /\ fout["classify_window"] = <<>>
    /\ fout' = [fout EXCEPT !["classify_window"] =
          [i \in 1..Len(fws) |->
             <<extract_features_single(fws[i][1], fws[i][2],
                                       fws[i][3], fws[i][4])>>]]
    /\ UNCHANGED <<fws, serviceVars, labelVars, synthVars,
                   profileVars>>

\* classify_batch, line 116, called on the whole list
FeatClassifyBatch ==
    /\ fout["classify_batch"] = <<>>
    /\ LET X == extract_features_batch([i \in 1..Len(fws) |->
                                          WindowDict(fws[i])]).rows
       IN  fout' = [fout EXCEPT !["classify_batch"] =
                      [i \in 1..Len(X) |-> <<X[i]>>]]
    /\ UNCHANGED <<fws, serviceVars, labelVars, synthVars,
                   profileVars>>

\* generate_synthetic_data, one sample per window
FeatSynthetic ==
    /\ fout["synthetic"] = <<>>
    /\ fout' = [fout EXCEPT !["synthetic"] =
                  [i \in 1..Len(fws) |-> <<SyntheticRow(fws[i])>>]]
    /\ UNCHANGED <<fws, serviceVars, labelVars, synthVars,
                   profileVars>>

\* load_real_data_from_db, one stored session per window
FeatReal ==
    /\ fout["real"] = <<>>
    /\ fout' = [fout EXCEPT !["real"] =
          [i \in 1..Len(fws) |->
             LET r == RealSample(SessionSummary(fws[i]))
             IN  [k \in 1..Len(r) |-> r[k].feats]]]
    /\ UNCHANGED <<fws, serviceVars, labelVars, synthVars,
                   profileVars>>

NextFeat ==
    \/ FeatClassifyWindow
    \/ FeatClassifyBatch
    \/ FeatSynthetic
    \/ FeatReal

SpecFeat == InitFeat /\ [][NextFeat]_vars


(***************************************************************************)
(* generate_synthetic_data.  The generator rng is a state that every draw  *)
(* advances; a draw is a level 0..15, the sixteenth of the unit interval   *)
(* it falls in, and each distribution maps the level into its range.  src  *)
(* records, next to X_all and y_all, which loop appended each row.         *)
(***************************************************************************)
PROFILES ==
    [c \in ClassSet |->
        CASE c = "no_tremor" ->
               [b1_range |-> <<0, 8000>>, b2_range |-> <<0, 8000>>,
                b3_range |-> <<0, 8000>>, norm_range |-> <<10000, 150000>>]
          [] c = "parkinsonian" ->
               [b1_range |-> <<500000, 15000000>>,
                b2_range |-> <<10000, 2000000>>,
                b3_range |-> <<10000, 1500000>>,
                norm_range |-> <<50000, 400000>>]
          [] c = "essential" ->
               [b1_range |-> <<10000, 2000000>>,
                b2_range |-> <<500000, 12000000>>,
                b3_range |-> <<10000, 2000000>>,
                norm_range |-> <<50000, 500000>>]
          [] c = "physiological" ->
               [b1_range |-> <<10000, 1500000>>,
                b2_range |-> <<10000, 2000000>>,
                b3_range |-> <<400000, 10000000>>,
                norm_range |-> <<30000, 350000>>]]

\* the keys of PROFILES in insertion order, as the class loop visits them
ProfileOrder == <<"no_tremor", "parkinsonian", "essential", "physiological">>

\* np.random.default_rng(seed): the state depends on the seed alone
default_rng(seed) == seed % 65536

\* the generator state after one draw
Advance(st) == (st * 25173 + 13849) % 65536

RECURSIVE RngAfter(_, _)
\* the generator state after k draws
RngAfter(st, k) == IF k = 0 THEN st ELSE RngAfter(Advance(st), k - 1)

\* the level of the k-th draw made from state st
Draw(st, k) == RngAfter(st, k) \div 4096

\* rng.uniform(lo, hi) at level u: in [lo, hi)
uniform(lo, hi, u) == lo + ((hi - lo) * u) \div 16

\* rng.normal(0, std) at level u: symmetric about 0, within 2 std
normal(std, u) == (std * (2 * u - 15)) \div 8

\* rng.choice(options) at level u
choice(options, u) == options[1 + (u * Len(options)) \div 16]

RECURSIVE Bisect(_, _, _)
\* the r in [lo, hi) with r * r <= x < (r + 1) * (r + 1)
Bisect(x, lo, hi) ==
    IF hi - lo <= 1 THEN lo
    ELSE LET mid == (lo + hi) \div 2
         IN  IF mid * mid <= x THEN Bisect(x, mid, hi)
             ELSE Bisect(x, lo, mid)

\* exp(rng.uniform(log(lo), log(hi))) at level u: lo when the exponent is
\* log(lo), sqrt(lo * hi) when it is half way; in thousandths under the root
LogInterpolate(lo, hi, u) ==
    IF u \div 8 = 0 THEN lo
    ELSE 1000 * Bisect((lo \div 1000) * (hi \div 1000), 0, 46340)

sample_uniform(lo, hi, u) == uniform(lo, hi, u)

sample_log_uniform(lo, hi, u) ==
    LogInterpolate(IF lo <= 0 THEN eps ELSE lo, hi, u)

\* a product of two values, each taken to the thousandth
Times(a, b) == (a \div 1000) * (b \div 1000)

\* lines 112-131: one sample of class cls_name, drawn from state st (8 draws)
ClassSample(cls_name, noise_std, st) ==
    LET profile == PROFILES[cls_name]
        band(range, k) ==
            IF cls_name = "no_tremor"
            THEN sample_uniform(range[1], range[2], Draw(st, k))
            ELSE sample_log_uniform(range[1], range[2], Draw(st, k))
        b1 == band(profile.b1_range, 1)
        b2 == band(profile.b2_range, 2)
        b3 == band(profile.b3_range, 3)
        norm == sample_uniform(profile.norm_range[1], profile.norm_range[2],
                               Draw(st, 4))
    IN  SyntheticRow(<<b1 + normal(noise_std, Draw(st, 5)),
                       b2 + normal(noise_std, Draw(st, 6)),
                       b3 + normal(noise_std, Draw(st, 7)),
                       norm + normal(noise_std \div 2, Draw(st, 8))>>)

\* lines 137-167: the three samples of one borderline iteration, drawn from
\* state st (14 draws), each with its label
BorderlineSamples(st) ==
    LET u(lo, hi, k) == uniform(lo, hi, Draw(st, k))
        weak == extract_features_single(
                    u(5000, 50000, 1), u(5000, 50000, 2), u(5000, 50000, 3),
                    u(20000, 200000, 4))
        voluntary == extract_features_single(
                    u(10000, 500000, 5), u(10000, 500000, 6),
                    u(10000, 500000, 7), u(700000, 1500000, 8))
        dominant_cls == choice(<<"parkinsonian", "essential",
                                 "physiological">>, Draw(st, 9))
        base == u(300000, 3000000, 10)
        up(k) == Times(base, u(1500000, 3000000, k))
        mid(k) == Times(base, u(300000, 900000, k))
        low(k) == Times(base, u(200000, 800000, k))
        b1 == IF dominant_cls = "parkinsonian" THEN up(11)
              ELSE IF dominant_cls = "essential" THEN mid(11) ELSE low(11)
        b2 == IF dominant_cls = "parkinsonian" THEN mid(12)
              ELSE IF dominant_cls = "essential" THEN up(12) ELSE mid(12)
        b3 == IF dominant_cls = "parkinsonian" THEN low(13)
              ELSE IF dominant_cls = "essential" THEN low(13) ELSE up(13)
        mixed == extract_features_single(b1, b2, b3, u(50000, 400000, 14))
    IN  <<[x |-> weak, y |-> CLASS_TO_IDX["no_tremor"], src |-> "weak"],
          [x |-> voluntary, y |-> CLASS_TO_IDX["no_tremor"],
           src |-> "voluntary"],
          [x |-> mixed, y |-> CLASS_TO_IDX[dominant_cls], src |-> "mixed"]>>

BorderlineCount_ceil(n) == (n + 2) \div 3

\* range(n_per_class // 3): the number of borderline iterations
BorderlineCount(n) == n \div 3

RECURSIVE Shuffled(_, _, _)
\* positions i, i-1, .., 2 of p each swapped with a drawn position below
Shuffled(p, i, st) ==
    IF i <= 1 THEN p
    ELSE LET j == 1 + (Draw(st, 1) * i) \div 16
         IN  Shuffled([p EXCEPT ![i] = p[j], ![j] = p[i]], i - 1,
                      Advance(st))

\* rng.permutation(m), drawn from state st
permutation(m, st) == Shuffled([i \in 1..m |-> i], m, st)

NewGenerator_global(seed, leftover) == leftover

\* line 106: each call makes its own generator from its seed argument,
\* whatever state an earlier call's generator was left in
NewGenerator(seed, leftover) == default_rng(seed)

Seeds == {42, 7, 2024}

NoiseStds == {0, 50000}

InitSynth ==
    /\ ServiceOff
    /\ LabelIdle
    /\ FeatIdle
    /\ ProfileIdle
    /\ \E n \in 0..MaxPerClass, noise_std \in NoiseStds, seed \in Seeds :
          gen = [pc |-> "classes", n |-> n, noise_std |-> noise_std,
                 seed |-> seed, rng |-> NewGenerator(seed, 0),
                 cls |-> 1, k |-> 0, X |-> <<>>, y |-> <<>>, src |-> <<>>,
                 run |-> 1, first |-> <<>>]

\* one pass of the inner loop, lines 111-132
SynthClassSample ==
    /\ gen.pc = "classes"
    /\ gen.k < gen.n
    /\ LET cls_name == ProfileOrder[gen.cls]
       IN  gen' = [gen EXCEPT
                     !.X = Append(@, ClassSample(cls_name, gen.noise_std,
                                                 gen.rng)),
                     !.y = Append(@, CLASS_TO_IDX[cls_name]),
                     !.src = Append(@, "class"),
                     !.rng = RngAfter(@, 8),
                     !.k = @ + 1]
    /\ UNCHANGED <<serviceVars, labelVars, featVars, profileVars>>

\* the inner loop is exhausted: on to the next profile, or to the
\* borderline loop after the last one
SynthNextClass ==
    /\ gen.pc = "classes"
    /\ gen.k = gen.n
    /\ gen' = IF gen.cls < Len(ProfileOrder)
              THEN [gen EXCEPT !.cls = @ + 1, !.k = 0]
              ELSE [gen EXCEPT !.pc = "borderline", !.k = 0]
    /\ UNCHANGED <<serviceVars, labelVars, featVars, profileVars>>

\* one pass of the borderline loop, lines 136-167
SynthBorderline ==
    /\ gen.pc = "borderline"
    /\ gen.k < BorderlineCount(gen.n)
    /\ LET s == BorderlineSamples(gen.rng)
       IN  gen' = [gen EXCEPT
                     !.X = @ \o <<s[1].x, s[2].x, s[3].x>>,
                     !.y = @ \o <<s[1].y, s[2].y, s[3].y>>,
                     !.src = @ \o <<s[1].src, s[2].src, s[3].src>>,
                     !.rng = RngAfter(@, 14),
                     !.k = @ + 1]
    /\ UNCHANGED <<serviceVars, labelVars, featVars, profileVars>>

\* lines 169-174: the borderline loop is exhausted; shuffle and return
SynthReturn ==
    /\ gen.pc = "borderline"
    /\ gen.k = BorderlineCount(gen.n)
    /\ LET m == Len(gen.X)
           perm == permutation(m, gen.rng)
       IN  gen' = [gen EXCEPT
                     !.pc = "returned",
                     !.X = [i \in 1..m |-> gen.X[perm[i]]],
                     !.y = [i \in 1..m |-> gen.y[perm[i]]],
                     !.src = [i \in 1..m |-> gen.src[perm[i]]],
                     !.rng = RngAfter(@, IF m > 1 THEN m - 1 ELSE 0)]
    /\ UNCHANGED <<serviceVars, labelVars, featVars, profileVars>>

\* a second call with the same (n_per_class, noise_std, seed); first keeps
\* what the first call returned
SynthAgain ==
    /\ gen.pc = "returned"
    /\ gen.run = 1
    /\ gen' = [gen EXCEPT
                  !.pc = "classes",
                  !.rng = NewGenerator(gen.seed, gen.rng),
                  !.cls = 1, !.k = 0,
                  !.X = <<>>, !.y = <<>>, !.src = <<>>,
                  !.run = 2,
                  !.first = <<gen.X, gen.y>>]
    /\ UNCHANGED <<serviceVars, labelVars, featVars, profileVars>>

NextSynth ==
    \/ SynthClassSample
    \/ SynthNextClass
    \/ SynthBorderline
    \/ SynthReturn
    \/ SynthAgain

SpecSynth == InitSynth /\ [][NextSynth]_vars

(***************************************************************************)
(* train_model.main with --augment-from-db.  A row's raw_summary_json is   *)
(* the text json.dumps wrote for a session, or a text json.loads rejects.  *)
(***************************************************************************)
\* json.dumps(obj)
JsonText(obj) == [t |-> "json", v |-> obj]

\* a text that is not JSON
CorruptText == [t |-> "garbage", v |-> <<>>]

\* a row of the sessions table
SessionRow(id, session_id, timestamp, summary, raw) ==
    [id |-> id, session_id |-> session_id, timestamp |-> timestamp,
     clinical_summary |-> summary, raw_summary_json |-> raw]

RECURSIVE RealRows(_)
\* lines 202-225: the samples of the rows, in row order; a row whose text
\* json.loads rejects is skipped
RealRows(rows) ==
    IF rows = <<>> THEN <<>>
    ELSE LET text == Head(rows).raw_summary_json
         IN  (IF text.t = "json" THEN RealSample(text.v) ELSE <<>>)
               \o RealRows(Tail(rows))

\* the None that load_real_data_from_db returns
NoRealData == [none |-> TRUE, X |-> <<>>, y |-> <<>>]

load_real_data_from_db_always(d) ==
    LET r == RealRows(d.rows)
    IN  [none |-> FALSE,
         X |-> [i \in 1..Len(r) |-> r[i].feats],
         y |-> [i \in 1..Len(r) |-> r[i].label]]

load_real_data_from_db(d) ==
    IF ~d.file THEN NoRealData
    ELSE IF d.rows = <<>> THEN NoRealData
    ELSE LET r == RealRows(d.rows)
         IN  IF r = <<>> THEN NoRealData
             ELSE [none |-> FALSE,
                   X |-> [i \in 1..Len(r) |-> r[i].feats],
                   y |-> [i \in 1..Len(r) |-> r[i].label]]

RECURSIVE tile_twice(_, _)
tile_twice(a, reps) ==
    IF reps <= 1 THEN <<>> ELSE a \o tile_twice(a, reps - 1)

RECURSIVE tile(_, _)
\* np.tile along the first axis: a, reps times over
tile(a, reps) == IF reps = 0 THEN <<>> ELSE a \o tile(a, reps - 1)

\* what a raw_summary_json column can hold: a session with no band power,
\* a text that is not JSON, and two sessions with band power
StoredTexts ==
    {JsonText(SessionSummary(<<0, 0, 0, 200000>>)),
     CorruptText,
     JsonText(SessionSummary(<<1000000, 100000, 100000, 900000>>)),
     JsonText(SessionSummary(<<100000, 1000000, 100000, 200000>>))}

\* the databases a training run can find: no file, or a sessions table of
\* up to MaxRows rows
TrainDbs ==
    {NoDb} \cup
    {[file |-> TRUE,
      rows |-> [i \in 1..Len(texts) |->
                  SessionRow(i, "s", i, "report", texts[i])],
      seq |-> Len(texts)] :
        texts \in UNION {[1..n -> StoredTexts] : n \in 0..MaxRows}}

\* main is started with at least 5 samples per class, which the stratified
\* split and the 5-fold cross-validation of train_random_forest need
InitTrain ==
    /\ ServiceOff
    /\ LabelIdle
    /\ FeatIdle
    /\ backends = [kaggle |-> "unset", hf |-> "unset"]
    /\ call = NoCall
    /\ out = NoOut
    /\ db \in TrainDbs
    /\ \E n \in (MaxPerClass - 1)..MaxPerClass, augment \in BOOLEAN :
          /\ gen = [pc |-> "classes", n |-> n, noise_std |-> 50000,
                    seed |-> 42, rng |-> NewGenerator(42, 0),
                    cls |-> 1, k |-> 0, X |-> <<>>, y |-> <<>>,
                    src |-> <<>>, run |-> 1, first |-> <<>>]
          /\ tm = [TrainOff EXCEPT !.pc = "generate", !.augment = augment]

\* lines 346-351: generate_synthetic_data has returned
TrainGenerated ==
    /\ tm.pc = "generate"
    /\ gen.pc = "returned"
    /\ tm' = [tm EXCEPT !.pc = "augment", !.X = gen.X, !.y = gen.y]
    /\ UNCHANGED <<serviceVars, labelVars, featVars, synthVars,
                   db, backends, call, out>>

\* lines 353-362: step 2, the optional augmentation
TrainAugment ==
    /\ tm.pc = "augment"
    /\ LET real == IF tm.augment THEN load_real_data_from_db(db)
                   ELSE NoRealData
       IN  tm' = [tm EXCEPT
                    !.pc = "train",
                    !.real = IF tm.augment THEN <<real>> ELSE <<>>,
                    !.X = IF real.none THEN @ ELSE @ \o tile(real.X, 3),
                    !.y = IF real.none THEN @ ELSE @ \o tile(real.y, 3)]
    /\ UNCHANGED <<serviceVars, labelVars, featVars, synthVars,
                   db, backends, call, out>>

\* lines 377-379: step 4, train_random_forest(X, y)
TrainFit ==
    /\ tm.pc = "train"
    /\ tm' = [tm EXCEPT !.pc = "save", !.fitted = <<tm.X, tm.y>>]
    /\ UNCHANGED <<serviceVars, labelVars, featVars, synthVars,
                   db, backends, call, out>>

\* line 382: step 5, save_model(clf)
TrainSave ==
    /\ tm.pc = "save"
    /\ tm' = [tm EXCEPT !.pc = "done", !.saved = TRUE]
    /\ artifact' = [st |-> "complete",
                    model |-> [ver |-> 1, forest |-> "fitted", obj |-> 0]]
    /\ UNCHANGED <<trainer, cached_model, loads, loop, hs,
                   labelVars, featVars, synthVars, db, backends, call, out>>

NextTrain ==
    \/ SynthClassSample
    \/ SynthNextClass
    \/ SynthBorderline
    \/ SynthReturn
    \/ TrainGenerated
    \/ TrainAugment
    \/ TrainFit
    \/ TrainSave

SpecTrain == InitTrain /\ [][NextTrain]_vars

(***************************************************************************)
(* Reports and the session store of main.py.  call_medgemma and            *)
(* store_session_direct await their HTTP calls, so a backend can go up or  *)
(* down and other requests can run while one is in flight; store_session,  *)
(* list_sessions and get_session_detail have no await and run in one step. *)
(* A backend that is set answers with a text when up and makes the HTTP    *)
(* call raise when down.  Timestamps are numbers ordered as their ISO      *)
(* strings are.                                                            *)
(***************************************************************************)
BackendStates == {"unset", "up", "down"}

\* truthiness of KAGGLE_MEDGEMMA_URL / HF_API_TOKEN
Configured(b) == backends[b] # "unset"

\* the session ids and timestamps clients send; "" and 0 are the empty
\* string
ClientSessionIds == {"a", ""}

ClientTimestamps == {0, 1, 2}

AskedSessionIds == {"a", "S", "b"}

\* datetime.utcnow().isoformat(): later than every client timestamp here
UtcNow == 3 + db.seq

\* s.metadata.timestamp or datetime.utcnow().isoformat()
TimestampOr(ts) == IF ts = 0 THEN UtcNow ELSE ts

\* s.metadata.session_id or f"S{epoch}"
SessionIdOr(sid) == IF sid = "" THEN "S" ELSE sid

\* INSERT INTO sessions with an AUTOINCREMENT id
InsertSession(session_id, timestamp, summary) ==
    [db EXCEPT
       !.seq = @ + 1,
       !.rows = Append(@, SessionRow(db.seq + 1, session_id, timestamp,
                    summary, JsonText(SessionSummary(<<0, 0, 0, 0>>))))]

\* the StoredSession a store request answers with
StoredSession(row) ==
    [kind |-> "stored", id |-> row.id, session_id |-> row.session_id,
     timestamp |-> row.timestamp]

\* ORDER BY timestamp ASC, id ASC
RowBefore(r, q) ==
    \/ r.timestamp < q.timestamp
    \/ r.timestamp = q.timestamp /\ r.id < q.id

RECURSIVE InsertOrdered(_, _)
InsertOrdered(r, sorted) ==
    IF sorted = <<>> THEN <<r>>
    ELSE IF RowBefore(r, Head(sorted)) THEN <<r>> \o sorted
    ELSE <<Head(sorted)>> \o InsertOrdered(r, Tail(sorted))

RECURSIVE OrderRows(_)
OrderRows(rows) ==
    IF rows = <<>> THEN <<>>
    ELSE InsertOrdered(Head(rows), OrderRows(Tail(rows)))

\* WHERE session_id = ? ORDER BY id DESC LIMIT 1: the row, or none
LatestRow_oldest(session_id) ==
    LET found == SelectSeq(db.rows, LAMBDA r : r.session_id = session_id)
    IN  IF found = <<>> THEN <<>> ELSE <<found[1]>>

LatestRow(session_id) ==
    LET found == SelectSeq(db.rows, LAMBDA r : r.session_id = session_id)
    IN  IF found = <<>> THEN <<>>
        ELSE <<CHOOSE r \in {found[i] : i \in 1..Len(found)} :
                  \A i \in 1..Len(found) : found[i].id <= r.id>>

\* the backend after on_startup: init_db has made the file and the table
InitStore ==
    /\ ServiceOff
    /\ LabelIdle
    /\ FeatIdle
    /\ SynthIdle
    /\ tm = TrainOff
    /\ db = [file |-> TRUE, rows |-> <<>>, seq |-> 0]
    /\ backends \in [{"kaggle", "hf"} -> BackendStates]
    /\ call = NoCall
    /\ out = NoOut

\* a backend that is set goes down or comes back
BackendFlip ==
    /\ \E b \in {"kaggle", "hf"} :
          /\ Configured(b)
          /\ backends' = [backends EXCEPT
                            ![b] = IF @ = "up" THEN "down" ELSE "up"]
    /\ UNCHANGED <<serviceVars, labelVars, featVars, synthVars,
                   db, tm, call, out>>

\* the two handlers that call call_medgemma
AnalyzeOps == {"analyze", "analyze_test_phase"}

\* POST /analyze or POST /tests/analyze-phase reaches call_medgemma
AnalyzeStart ==
    /\ call.op = "none"
    /\ \E op \in AnalyzeOps :
          call' = [NoCall EXCEPT !.op = op, !.pc = "kaggle"]
    /\ UNCHANGED <<serviceVars, labelVars, featVars, synthVars,
                   db, tm, backends, out>>

\* where call_medgemma goes when the Kaggle call raised
AfterKaggleError_giveup == "placeholder"

AfterKaggleError == "hf"

\* call_medgemma, lines 342-349: step 1, the Kaggle tunnel
CallKaggle ==
    /\ call.op \in AnalyzeOps
    /\ call.pc = "kaggle"
    /\ call' =
         IF ~Configured("kaggle") THEN [call EXCEPT !.pc = "hf"]
         ELSE IF backends.kaggle = "up"
         THEN [call EXCEPT !.pc = "return", !.text = "kaggle_text",
                           !.tried = Append(@, <<"kaggle", "answered">>)]
         ELSE [call EXCEPT !.pc = AfterKaggleError,
                           !.tried = Append(@, <<"kaggle", "failed">>)]
    /\ UNCHANGED <<serviceVars, labelVars, featVars, synthVars,
                   db, tm, backends, out>>

\* call_medgemma, lines 351-375: step 2, the hosted inference API
CallHosted ==
    /\ call.op \in AnalyzeOps
    /\ call.pc = "hf"
    /\ call' =
         IF ~Configured("hf") THEN [call EXCEPT !.pc = "placeholder"]
         ELSE IF backends.hf = "up"
         THEN [call EXCEPT !.pc = "return", !.text = "hf_text",
                           !.tried = Append(@, <<"hf", "answered">>)]
         ELSE [call EXCEPT !.pc = "placeholder",
                           !.tried = Append(@, <<"hf", "failed">>)]
    /\ UNCHANGED <<serviceVars, labelVars, featVars, synthVars,
                   db, tm, backends, out>>

\* call_medgemma, line 378: step 3, the placeholder
CallPlaceholder ==
    /\ call.op \in AnalyzeOps
    /\ call.pc = "placeholder"
    /\ call' = [call EXCEPT !.pc = "return", !.text = "placeholder"]
    /\ UNCHANGED <<serviceVars, labelVars, featVars, synthVars,
                   db, tm, backends, out>>

\* call_medgemma has returned and the handler answers
CallReturn ==
    /\ call.op \in AnalyzeOps
    /\ call.pc = "return"
    /\ call' = NoCall
    /\ UNCHANGED <<serviceVars, labelVars, featVars, synthVars,
                   db, tm, backends, out>>

\* POST /profile/session/direct, of a session without a timestamp
DirectStart ==
    /\ call.op = "none"
    /\ db.seq < MaxSessions
    /\ \E sid \in ClientSessionIds :
          call' = [NoCall EXCEPT !.op = "direct", !.pc = "kaggle",
                                 !.sid = sid, !.ts = 0]
    /\ UNCHANGED <<serviceVars, labelVars, featVars, synthVars,
                   db, tm, backends, out>>

\* store_session_direct, lines 660-693: the Kaggle call, else the
\* rule-based report
DirectReport ==
    /\ call.op = "direct"
    /\ call.pc = "kaggle"
    /\ call' =
         IF ~Configured("kaggle")
         THEN [call EXCEPT !.pc = "persist", !.text = "rule_based"]
         ELSE IF backends.kaggle = "up"
         THEN [call EXCEPT !.pc = "persist", !.text = "kaggle_text",
                           !.tried = Append(@, <<"kaggle", "answered">>)]
         ELSE [call EXCEPT !.pc = "persist", !.text = "rule_based",
                           !.tried = Append(@, <<"kaggle", "failed">>)]
    /\ UNCHANGED <<serviceVars, labelVars, featVars, synthVars,
                   db, tm, backends, out>>

\* store_session_direct, lines 695-738: insert the row and answer
DirectPersist ==
    /\ call.op = "direct"
    /\ call.pc = "persist"
    /\ out = NoOut
    /\ db' = InsertSession(SessionIdOr(call.sid), TimestampOr(call.ts),
                           call.text)
    /\ out' = StoredSession(db'.rows[Len(db'.rows)])
    /\ call' = NoCall
    /\ UNCHANGED <<serviceVars, labelVars, featVars, synthVars,
                   tm, backends>>

\* POST /profile/session
StoreSession ==
    /\ out = NoOut
    /\ db.seq < MaxSessions
    /\ \E sid \in ClientSessionIds, ts \in ClientTimestamps :
          db' = InsertSession(SessionIdOr(sid), TimestampOr(ts),
                              "client_text")
    /\ out' = StoredSession(db'.rows[Len(db'.rows)])
    /\ UNCHANGED <<serviceVars, labelVars, featVars, synthVars,
                   tm, backends, call>>

\* GET /profile/sessions
ListSessions ==
    /\ out = NoOut
    /\ out' = [kind |-> "list", rows |-> OrderRows(db.rows)]
    /\ UNCHANGED <<serviceVars, labelVars, featVars, synthVars,
                   db, tm, backends, call>>

\* GET /profile/sessions/{session_id}
GetSessionDetail ==
    /\ out = NoOut
    /\ \E sid \in AskedSessionIds :
          LET row == LatestRow(sid)
          IN  out' = IF row = <<>>
                     THEN [kind |-> "404", asked |-> sid]
                     ELSE [kind |-> "detail", asked |-> sid, row |-> row[1]]
    /\ UNCHANGED <<serviceVars, labelVars, featVars, synthVars,
                   db, tm, backends, call>>

\* the client has read the response
Deliver ==
    /\ out # NoOut
    /\ out' = NoOut
    /\ UNCHANGED <<serviceVars, labelVars, featVars, synthVars,
                   db, tm, backends, call>>

NextReport ==
    \/ BackendFlip
    \/ AnalyzeStart
    \/ CallKaggle
    \/ CallHosted
    \/ CallPlaceholder
    \/ CallReturn

SpecReport == InitStore /\ [][NextReport]_vars

NextStore ==
    \/ BackendFlip
    \/ DirectStart
    \/ DirectReport
    \/ DirectPersist
    \/ StoreSession
    \/ ListSessions
    \/ GetSessionDetail
    \/ Deliver

SpecStore == InitStore /\ [][NextStore]_vars

(***************************************************************************)
(* Properties                                                              *)
(***************************************************************************)
IsClassify(h) == hs[h].req.op \in {"classify_window", "classify_batch"}

\* C1: once a model is cached, _cached_model never changes again, no
\* get_classifier goes back to the artifact file (neither exists() nor
\* joblib.load), and every call that gets past get_classifier holds the
\* cached object and answers on the model path, whatever the artifact file
\* has become since (an ml_status that found no file calls no
\* get_classifier).
C1_LoadedStaysCached ==
    [][cached_model # None =>
         /\ cached_model' = cached_model
         /\ loads' = loads
         /\ \A h \in Handlers :
              /\ hs'[h].pc \notin {"gc_exists", "gc_load"}
              /\ (hs'[h].pc = "body" /\ hs'[h].ready # "no")
                   => hs'[h].clf = cached_model
              /\ (hs'[h].pc = "done" /\ hs'[h].req.op = "classify_window")
                   => /\ hs'[h].clf = cached_model
                      /\ hs'[h].res.kind = "window"
                      /\ hs'[h].res.model_version = "rf_v1"]_vars

\* C1 witness: a classify_window answered from the cache after retraining
\* has put a different model on disk
C1_Witness ==
    \E h \in Handlers :
        /\ hs[h].pc = "done"
        /\ hs[h].req.op = "classify_window"
        /\ hs[h].hit
        /\ hs[h].clf = cached_model
        /\ artifact.st = "complete"
        /\ artifact.model.ver # cached_model.ver

\* C2: the cache is filled at most once per process: at most one
\* joblib.load ever returns a model, and every caller of get_classifier
\* that gets a model gets that one complete object.
C2_InitializedOnce ==
    /\ loads <= 1
    /\ cached_model # None => (loads = 1 /\ cached_model.obj = 1)
    /\ \A h \in Handlers :
          hs[h].clf # None =>
              /\ hs[h].clf = cached_model
              /\ hs[h].clf.forest \in Forests

\* C2 witness: two requests in flight, the cache was empty and the artifact
\* present; the first one has loaded it while the second waits its turn
C2_Witness ==
    \E h1, h2 \in Handlers \ {0} :
        /\ h1 # h2
        /\ hs[h1].pc = "body"
        /\ hs[h1].load = "complete"
        /\ hs[h2].pc = "pending"
        /\ loads = 1

\* C3: no joblib.load of get_classifier ever reads a half-written artifact.
C3_NeverHalfWritten ==
    \A h \in Handlers : hs[h].load # "partial"

\* C4: a classify_window whose get_classifier found the cache empty and no
\* artifact returns (does not raise) the rule-based label of its window
\* with model_version rule_based_fallback.
C4_FallbackWhenAbsent ==
    \A h \in Handlers :
        (hs[h].pc = "done" /\ hs[h].req.op = "classify_window"
           /\ hs[h].exists = "no")
        => /\ hs[h].res.kind = "window"
           /\ hs[h].res.prediction =
                 label_window_rule_based(hs[h].req.w[1], hs[h].req.w[2],
                                         hs[h].req.w[3], hs[h].req.w[4])
           /\ hs[h].res.model_version = "rule_based_fallback"

\* C4 witness: (5.0, 0.5, 0.3, 0.2) answered parkinsonian by the fallback
C4_Witness ==
    \E h \in Handlers :
        /\ hs[h].pc = "done"
        /\ hs[h].req.op = "classify_window"
        /\ hs[h].exists = "no"
        /\ hs[h].req.w = <<5000000, 500000, 300000, 200000>>
        /\ hs[h].res.prediction = "parkinsonian"

\* C5: every classify_batch that ends without a model, or that was given
\* an empty list, ends by returning the error-shaped result.
C5_BatchErrorResult ==
    \A h \in Handlers :
        (hs[h].pc = "done" /\ hs[h].req.op = "classify_batch"
           /\ (hs[h].clf = None \/ Len(hs[h].req.ws) = 0))
        => hs[h].res.kind = "error"

\* C6: no classify_window or classify_batch call ends in an exception.
C6_NeverRaises ==
    \A h \in Handlers :
        (hs[h].pc = "done" /\ IsClassify(h))
        => hs[h].res.kind \in {"window", "batch", "error"}

\* the window with every missing or non-numeric field set to 0.0
Sanitized(w) ==
    [k \in {"b1", "b2", "b3", "meanNorm"} |->
        IF FloatExc(DictGet(w, k)) = "none" THEN DictGet(w, k) ELSE Num(0)]

\* C7: a classify_batch that has a model classifies its windows exactly as
\* it would the same windows with each missing or non-numeric field set to
\* 0.0.
C7_MalformedCoerced ==
    \A h \in Handlers :
        (hs[h].pc = "done" /\ hs[h].req.op = "classify_batch"
           /\ hs[h].clf # None /\ Len(hs[h].req.ws) > 0)
        => LET clean == [i \in 1..Len(hs[h].req.ws) |->
                           Sanitized(hs[h].req.ws[i])]
           IN  /\ hs[h].X = extract_features_batch(clean).rows
               /\ hs[h].res = classify_batch(hs[h].clf, clean)

\* C8: every feature vector any of the four call sites builds for window i
\* is extract_features_single of that window's (b1, b2, b3, meanNorm).
C8_SameFeaturesEverywhere ==
    \A site \in Sites :
        \A i \in DOMAIN fout[site] :
            \A k \in DOMAIN fout[site][i] :
                fout[site][i][k] =
                    extract_features_single(fws[i][1], fws[i][2],
                                            fws[i][3], fws[i][4])

\* C8 witness: all four sites have produced the vector of a window with a
\* non-zero meanNorm, in second position of the list
C8_Witness ==
    /\ Len(fws) = 2
    /\ fws[2] = <<1000000, 100000, 100000, 900000>>
    /\ \A site \in Sites :
          /\ Len(fout[site]) = 2
          /\ Len(fout[site][2]) = 1
          /\ fout[site][2][1].meanNorm = 900000

\* C9: when the motion magnitude is above 0.7 and the total band power is
\* at least the noise floor and below 5, the label is no_tremor whichever
\* band dominates.  The total is the one the labeler computes, after
\* noise-floor zeroing; for a window of non-negative bands the plain sum
\* b1 + b2 + b3 is covered as well.
C9_VoluntaryMovementGuard ==
    LET total == LabelTotal(lw[1], lw[2], lw[3])
        raw == lw[1] + lw[2] + lw[3]
    IN  (/\ lres # "none"
         /\ lw[4] > 700000
         /\ \/ total >= NOISE_FLOOR /\ total < 5000000
            \/ /\ lw[1] >= 0 /\ lw[2] >= 0 /\ lw[3] >= 0
               /\ raw >= NOISE_FLOOR /\ raw < 5000000)
        => lres = "no_tremor"

\* C9 witness: (1.0, 0.1, 0.1, 0.9) labelled no_tremor
C9_Witness ==
    /\ lw = <<1000000, 100000, 100000, 900000>>
    /\ lres = "no_tremor"

\* the band of lw, 1..3, that is strictly above both others and above 0.3;
\* 0 when there is none
StrictlyDominant ==
    IF lw[1] > lw[2] /\ lw[1] > lw[3] /\ lw[1] > 300000 THEN 1
    ELSE IF lw[2] > lw[1] /\ lw[2] > lw[3] /\ lw[2] > 300000 THEN 2
    ELSE IF lw[3] > lw[1] /\ lw[3] > lw[2] /\ lw[3] > 300000 THEN 3
    ELSE 0

\* C10: when the labeler's total is at least the noise floor, the
\* voluntary-movement guard does not apply, and one band is strictly above
\* both others and above 0.3, the label is that band's class.
C10_DominanceRule ==
    (/\ lres # "none"
     /\ LabelTotal(lw[1], lw[2], lw[3]) >= NOISE_FLOOR
     /\ ~(lw[4] > 700000 /\ LabelTotal(lw[1], lw[2], lw[3]) < 5000000)
     /\ StrictlyDominant # 0)
    => lres = CLASSES[StrictlyDominant + 1]

\* C10 witness: (5.0, 0.5, 0.3, 0.2) labelled parkinsonian
C10_Witness ==
    /\ lw = <<5000000, 500000, 300000, 200000>>
    /\ lres = "parkinsonian"

\* the bands of lw as the labeler compares them, after noise-floor zeroing
LabelBandsOf == <<ZeroBelowFloor(lw[1]), ZeroBelowFloor(lw[2]),
                  ZeroBelowFloor(lw[3])>>

\* no band is strictly above both others and above 0.3
NoBandDominates ==
    LET a == LabelBandsOf
    IN  \A i \in 1..3 :
           ~(/\ a[i] > 300000
             /\ \A j \in 1..3 : j # i => a[i] > a[j])

\* C11: when the noise-floor return and the voluntary-movement guard do not
\* apply and no band clears the dominance rule, the label is no_tremor if
\* the total is at most 0.05, and otherwise the class of the largest band,
\* the first of parkinsonian, essential, physiological among equal largest
\* bands.
C11_WeakMixedSignal ==
    LET a == LabelBandsOf
        total == a[1] + a[2] + a[3]
        top == CHOOSE i \in 1..3 :
                  /\ \A j \in 1..3 : a[j] <= a[i]
                  /\ \A j \in 1..3 : j < i => a[j] < a[i]
    IN  (/\ lres # "none"
         /\ total >= 10000
         /\ ~(lw[4] > 700000 /\ total < 5000000)
         /\ NoBandDominates)
        => lres = IF total > 50000 THEN CLASSES[top + 1] ELSE "no_tremor"

\* C11 witness: (0.1, 0.1, 0, 0), an exact tie of the two largest bands,
\* labelled parkinsonian
C11_Witness ==
    /\ lw = <<100000, 100000, 0, 0>>
    /\ lres = "parkinsonian"

\* the label the documented rules give when a band is zeroed only if it is
\* below the noise floor
LabelKeepingFloor ==
    LET z(b) == IF b < 10000 THEN 0 ELSE b
        a == <<z(lw[1]), z(lw[2]), z(lw[3])>>
        total == a[1] + a[2] + a[3]
        top == CHOOSE i \in 1..3 :
                  /\ \A j \in 1..3 : a[j] <= a[i]
                  /\ \A j \in 1..3 : j < i => a[j] < a[i]
    IN  IF total < 10000 THEN "no_tremor"
        ELSE IF lw[4] > 700000 /\ total < 5000000 THEN "no_tremor"
        ELSE IF \E i \in 1..3 : /\ a[i] > 300000
                                /\ \A j \in 1..3 : j # i => a[i] > a[j]
        THEN CLASSES[top + 1]
        ELSE IF total > 50000 THEN CLASSES[top + 1]
        ELSE "no_tremor"

\* C12: the label is the one the rules give when only bands below 0.01 are
\* zeroed, a band at or above 0.01 keeping its full value in the total and
\* in the comparisons; a total below the noise floor gives no_tremor for
\* every motion magnitude.  Stated for windows of non-negative band powers.
C12_NoiseFloorRule ==
    (lres # "none" /\ lw[1] >= 0 /\ lw[2] >= 0 /\ lw[3] >= 0)
    => lres = LabelKeepingFloor

\* a classify_window call of handler h that has returned a result
WindowDone(h) ==
    /\ hs[h].pc = "done"
    /\ hs[h].req.op = "classify_window"
    /\ hs[h].res.kind = "window"

\* thirty times the sum of a probabilities mapping whose fractions are in
\* tenths or thirtieths
ThirtyTimesSum(probs) ==
    LET t(c) == probs[c][1] * (30 \div probs[c][2])
    IN  t("no_tremor") + t("parkinsonian") + t("essential")
          + t("physiological")

\* C13: the probabilities of every classify_window result sum to 1; on the
\* fallback path the returned label has 0.9 and each other class 0.1/3.
C13_ProbabilitiesSumToOne ==
    \A h \in Handlers :
        WindowDone(h) =>
            /\ \A c \in ClassSet : 30 % hs[h].res.probabilities[c][2] = 0
            /\ ThirtyTimesSum(hs[h].res.probabilities) = 30
            /\ hs[h].clf = None =>
                 \A c \in ClassSet :
                    hs[h].res.probabilities[c] =
                       IF c = hs[h].res.prediction THEN <<9, 10>>
                       ELSE <<1, 30>>

\* C13 witness: the fallback answer to (1.0, 0.1, 0.1, 0.9): 0.9 on
\* no_tremor, 0.1/3 on essential
C13_Witness ==
    \E h \in Handlers :
        /\ WindowDone(h)
        /\ hs[h].clf = None
        /\ hs[h].req.w = <<1000000, 100000, 100000, 900000>>
        /\ hs[h].res.probabilities["no_tremor"] = <<9, 10>>
        /\ hs[h].res.probabilities["essential"] = <<1, 30>>

\* C14: on the model path classify_window returns the probabilities the
\* model gave for the window's features, as prediction the class of lowest
\* index among those of highest probability, as confidence the probability
\* of the prediction, and is_tremor exactly when the prediction is not
\* no_tremor.
C14_ModelPathArgMax ==
    \A h \in Handlers :
        (WindowDone(h) /\ hs[h].clf # None) =>
            LET res == hs[h].res
                proba == predict_proba(hs[h].clf, hs[h].X)[1]
                p(c) == res.probabilities[c]
                idx(c) == CLASS_TO_IDX[c]
            IN  /\ Len(hs[h].X) = 1
                /\ \A c \in ClassSet : p(c) = <<proba[idx(c) + 1], 10>>
                /\ res.prediction \in ClassSet
                /\ \A c \in ClassSet : p(c)[1] <= p(res.prediction)[1]
                /\ \A c \in ClassSet :
                      idx(c) < idx(res.prediction)
                         => p(c)[1] < p(res.prediction)[1]
                /\ res.confidence = p(res.prediction)
                /\ res.is_tremor = (res.prediction # "no_tremor")

\* C14 witness: a model that rates parkinsonian and essential equally for
\* (5.0, 0.5, 0.3, 0.2) answers parkinsonian with confidence 0.5
C14_Witness ==
    \E h \in Handlers :
        /\ WindowDone(h)
        /\ hs[h].clf # None
        /\ hs[h].req.w = <<5000000, 500000, 300000, 200000>>
        /\ hs[h].res.probabilities["parkinsonian"] = <<5, 10>>
        /\ hs[h].res.probabilities["essential"] = <<5, 10>>
        /\ hs[h].res.prediction = "parkinsonian"
        /\ hs[h].res.is_tremor

\* a classify_batch call of handler h that has returned its aggregate
BatchDone(h) ==
    /\ hs[h].pc = "done"
    /\ hs[h].req.op = "classify_batch"
    /\ hs[h].res.kind = "batch"

\* the per_window entries of h's result that predict class c
EntriesOf(h, c) ==
    {i \in DOMAIN hs[h].res.per_window :
        hs[h].res.per_window[i].prediction = c}

\* C15: a classify_batch that classifies a non-empty list with a model
\* returns one per_window entry per window, entry i being the model's
\* verdict on window i, and n_windows is the length of both lists.
C15_OneEntryPerWindow ==
    \A h \in Handlers :
        BatchDone(h) =>
            LET res == hs[h].res
                ws == hs[h].req.ws
            IN  /\ Len(ws) > 0
                /\ res.n_windows = Len(ws)
                /\ Len(res.per_window) = Len(ws)
                /\ \A i \in 1..Len(ws) :
                      LET one == ModelClassify(hs[h].clf,
                                     FloatOf(DictGet(ws[i], "b1")),
                                     FloatOf(DictGet(ws[i], "b2")),
                                     FloatOf(DictGet(ws[i], "b3")),
                                     FloatOf(DictGet(ws[i], "meanNorm")))
                      IN  /\ res.per_window[i].prediction = one.prediction
                          /\ res.per_window[i].confidence = one.confidence

\* C15 witness: three windows, two alike, classified in order
C15_Witness ==
    \E h \in Handlers :
        /\ BatchDone(h)
        /\ hs[h].req.ws = <<FullDict, MissingDict, FullDict>>
        /\ hs[h].res.n_windows = 3
        /\ hs[h].res.per_window[1].prediction = "essential"
        /\ hs[h].res.per_window[2].prediction = "no_tremor"
        /\ hs[h].res.per_window[3].prediction = "essential"

\* C16: dominant_prediction is a class predicted for the most windows, the
\* one of lowest class index among those that tie, and the batch is_tremor
\* exactly when it is not no_tremor.
C16_PluralityVote ==
    \A h \in Handlers :
        BatchDone(h) =>
            LET res == hs[h].res
                n(c) == Cardinality(EntriesOf(h, c))
                dom == res.dominant_prediction
            IN  /\ dom \in ClassSet
                /\ n(dom) > 0
                /\ \A c \in ClassSet : n(c) <= n(dom)
                /\ \A c \in ClassSet :
                      CLASS_TO_IDX[c] < CLASS_TO_IDX[dom] => n(c) < n(dom)
                /\ res.is_tremor = (dom # "no_tremor")

\* C16 witness: one essential window then one no_tremor window: the tie
\* goes to no_tremor, the lower index, though essential came first
C16_Witness ==
    \E h \in Handlers :
        /\ BatchDone(h)
        /\ Len(hs[h].req.ws) = 2
        /\ hs[h].res.per_window[1].prediction = "essential"
        /\ hs[h].res.per_window[2].prediction = "no_tremor"
        /\ hs[h].res.dominant_prediction = "no_tremor"
        /\ ~hs[h].res.is_tremor

\* C17: class_counts holds, for each class, the number of per_window
\* entries with that prediction (a class predicted for no window has no
\* key), the counts sum to n_windows, and tremor_fraction is the number of
\* entries not predicted no_tremor over n_windows.
C17_CountsAndFraction ==
    \A h \in Handlers :
        BatchDone(h) =>
            LET res == hs[h].res
                n(c) == Cardinality(EntriesOf(h, c))
                cc(c) == IF c \in DOMAIN res.class_counts
                         THEN res.class_counts[c] ELSE 0
            IN  /\ DOMAIN res.class_counts = {c \in ClassSet : n(c) > 0}
                /\ \A c \in ClassSet : cc(c) = n(c)
                /\ cc("no_tremor") + cc("parkinsonian") + cc("essential")
                     + cc("physiological") = res.n_windows
                /\ res.tremor_fraction =
                     <<Cardinality({i \in DOMAIN res.per_window :
                          res.per_window[i].prediction # "no_tremor"}),
                       res.n_windows>>

\* C17 witness: two essential windows and a no_tremor one: counts 2 and 1,
\* tremor_fraction 2/3
C17_Witness ==
    \E h \in Handlers :
        /\ BatchDone(h)
        /\ hs[h].res.n_windows = 3
        /\ "essential" \in DOMAIN hs[h].res.class_counts
        /\ hs[h].res.class_counts["essential"] = 2
        /\ "no_tremor" \in DOMAIN hs[h].res.class_counts
        /\ hs[h].res.class_counts["no_tremor"] = 1
        /\ hs[h].res.tremor_fraction = <<2, 3>>

\* the (site, i) pairs for which a call site has built a feature vector
Built ==
    {p \in Sites \X (1..Len(fws)) :
        /\ p[2] \in DOMAIN fout[p[1]]
        /\ Len(fout[p[1]][p[2]]) = 1}

\* window i has three equal positive bands
EqualBands(i) ==
    /\ fws[i][1] > 0
    /\ fws[i][1] = fws[i][2]
    /\ fws[i][2] = fws[i][3]

\* C18 as stated: for b1 = b2 = b3 = v > 0 dom_ratio and spectral_centroid
\* are exactly 1.0, the numerator of each equal to its denominator.
C18_ExactlyOne ==
    \A p \in Built :
        EqualBands(p[2]) =>
            LET f == fout[p[1]][p[2]][1]
            IN  /\ f.dom_ratio[1] = f.dom_ratio[2]
                /\ f.spectral_centroid[1] = f.spectral_centroid[2]

\* C18 amended: for b1 = b2 = b3 = v > 0 dom_ratio is v / (v + eps) and
\* spectral_centroid is 3v / (3v + eps): each is below 1.0, its numerator
\* short of its denominator by eps.
C18_OneLessEps ==
    \A p \in Built :
        EqualBands(p[2]) =>
            LET f == fout[p[1]][p[2]][1]
                v == fws[p[2]][1]
            IN  /\ f.dom_ratio = <<v, v + eps>>
                /\ f.spectral_centroid = <<3 * v, 3 * v + eps>>
                /\ f.dom_ratio[2] - f.dom_ratio[1] = eps
                /\ f.spectral_centroid[2] - f.spectral_centroid[1] = eps

\* C18 witness: classify_window has built the vector of (0.02, 0.02, 0.02)
C18_Witness ==
    \E i \in 1..Len(fws) :
        /\ fws[i] = <<20000, 20000, 20000, 50000>>
        /\ i \in DOMAIN fout["classify_window"]
        /\ fout["classify_window"][i][1].dom_ratio = <<20000, 20001>>
        /\ fout["classify_window"][i][1].spectral_centroid = <<60000, 60001>>

\* window i has no negative input
NonNegative(i) == \A k \in 1..4 : fws[i][k] >= 0

\* window i has three positive bands
AllPositive(i) == \A k \in 1..3 : fws[i][k] > 0

\* total_power is the band sum and spectral_centroid lies in [0, 2]
PowerAndCentroid(i, f) ==
    /\ f.total_power = fws[i][1] + fws[i][2] + fws[i][3]
    /\ f.spectral_centroid[2] > 0
    /\ f.spectral_centroid[1] >= 0
    /\ f.spectral_centroid[1] <= 2 * f.spectral_centroid[2]

\* C19 as stated: for non-negative inputs total_power = b1 + b2 + b3,
\* spectral_centroid is in [0, 2], and dom_ratio >= 1 whenever all three
\* bands are positive.
C19_FeatureRanges ==
    \A p \in Built :
        NonNegative(p[2]) =>
            LET f == fout[p[1]][p[2]][1]
            IN  /\ PowerAndCentroid(p[2], f)
                /\ AllPositive(p[2]) => f.dom_ratio[1] >= f.dom_ratio[2]

\* C19 amended: for non-negative inputs total_power = b1 + b2 + b3 and
\* spectral_centroid is in [0, 2]; with all three bands positive dom_ratio
\* is >= 1 when the largest band exceeds the smallest by at least eps, and
\* below 1 when it does not.
C19_FeatureRangesEps ==
    \A p \in Built :
        NonNegative(p[2]) =>
            LET f == fout[p[1]][p[2]][1]
                w == fws[p[2]]
                spread == Max3(w[1], w[2], w[3]) - Min3(w[1], w[2], w[3])
            IN  /\ PowerAndCentroid(p[2], f)
                /\ AllPositive(p[2]) =>
                      (f.dom_ratio[1] >= f.dom_ratio[2]) = (spread >= eps)

\* C19 witness: the batch path has built the vector of (0.005, 0.02, 0.03):
\* total 0.055, centroid 0.08 / 0.055 in [0, 2], dom_ratio about 6
C19_Witness ==
    \E i \in 1..Len(fws) :
        /\ fws[i] = <<5000, 20000, 30000, 100000>>
        /\ i \in DOMAIN fout["classify_batch"]
        /\ LET f == fout["classify_batch"][i][1]
           IN  /\ f.total_power = 55000
               /\ f.spectral_centroid = <<80000, 55001>>
               /\ f.dom_ratio = <<30000, 5001>>

\* the rows of the returned data set that loop kind appended with label c
SynthRows(kind, c) ==
    {i \in 1..Len(gen.X) : gen.src[i] = kind /\ gen.y[i] = c}

\* the rows of the returned data set that loop kind appended
SynthKind(kind) == {i \in 1..Len(gen.X) : gen.src[i] = kind}

\* the band of row i that belongs to class index c (1, 2 or 3)
BandOfClass(i, c) ==
    CASE c = 1 -> gen.X[i].b1
      [] c = 2 -> gen.X[i].b2
      [] c = 3 -> gen.X[i].b3

\* C20: generate_synthetic_data(n_per_class) returns 4 * n_per_class +
\* 3 * (n_per_class // 3) labeled rows: n_per_class from the class loop for
\* each of the four classes, and n_per_class // 3 of each borderline kind,
\* the weak and the voluntary ones labeled no_tremor and each mixed one
\* labeled with the class whose band was scaled up above the other two.
C20_SyntheticRowCount ==
    gen.pc = "returned" =>
        /\ Len(gen.X) = 4 * gen.n + 3 * (gen.n \div 3)
        /\ Len(gen.y) = Len(gen.X)
        /\ \A c \in 0..3 : Cardinality(SynthRows("class", c)) = gen.n
        /\ \A kind \in {"weak", "voluntary", "mixed"} :
              Cardinality(SynthKind(kind)) = gen.n \div 3
        /\ \A i \in SynthKind("weak") \cup SynthKind("voluntary") :
              gen.y[i] = CLASS_TO_IDX["no_tremor"]
        /\ \A i \in SynthKind("mixed") :
              /\ gen.y[i] \in 1..3
              /\ \A c \in 1..3 \ {gen.y[i]} :
                    BandOfClass(i, gen.y[i]) > BandOfClass(i, c)

\* C20 witness: n_per_class = 4 returned 19 rows, one of them a mixed
\* sample, after the shuffle moved a borderline row among the class rows
C20_Witness ==
    /\ gen.pc = "returned"
    /\ gen.n = 4
    /\ Len(gen.X) = 19
    /\ SynthKind("mixed") # {}
    /\ \E i \in 1..16 : gen.src[i] # "class"

Usable(row) ==
    /\ row.raw_summary_json.t = "json"
    /\ LET bp == row.raw_summary_json.v.frequency_profile.band_power_mean
       IN  ~(bp.hz_4_6.v = 0 /\ bp.hz_6_8.v = 0 /\ bp.hz_8_12.v = 0)

\* the usable rows of the sessions table, in table order
UsableRows == SelectSeq(db.rows, Usable)

\* main has finished its augmentation step of a run with --augment-from-db
Augmented == tm.augment /\ tm.pc \in {"train", "save", "done"}

\* C22: with --augment-from-db and no database file, no session row or no
\* usable session, load_real_data_from_db returns None and the run goes on
\* to fit and save a model on exactly the synthetic X and y.
C22_SyntheticOnlyTraining ==
    (Augmented /\ (~db.file \/ UsableRows = <<>>)) =>
        /\ tm.real = <<NoRealData>>
        /\ tm.X = gen.X
        /\ tm.y = gen.y
        /\ tm.pc \in {"save", "done"} => tm.fitted = <<gen.X, gen.y>>
        /\ tm.pc = "done" => (tm.saved /\ artifact.st = "complete")

\* C22 witness: the database holds a row that does not parse and a session
\* with no band power, and the run has saved its model
C22_Witness ==
    /\ tm.augment
    /\ tm.pc = "done"
    /\ db.file
    /\ Len(db.rows) = 2
    /\ db.rows[1].raw_summary_json = CorruptText
    /\ db.rows[2].raw_summary_json.t = "json"
    /\ tm.real = <<NoRealData>>
    /\ artifact.st = "complete"

\* C23: with --augment-from-db and R usable sessions the training set is
\* the synthetic set followed by the R real samples three times over; the
\* sample of a session is the feature vector of its mean band powers and
\* rms_mean, labeled by label_window_rule_based, and a row that does not
\* parse or has no band power adds nothing.
C23_RealSamplesThrice ==
    (Augmented /\ db.file /\ UsableRows # <<>>) =>
        LET R == Len(UsableRows)
            S == Len(gen.X)
            bands(k) == UsableRows[k].raw_summary_json.v
                            .frequency_profile.band_power_mean
            rms(k) == UsableRows[k].raw_summary_json.v
                            .intensity_profile.rms_mean.v
        IN  /\ Len(tm.X) = S + 3 * R
            /\ Len(tm.y) = S + 3 * R
            /\ SubSeq(tm.X, 1, S) = gen.X
            /\ SubSeq(tm.y, 1, S) = gen.y
            /\ \A j \in 1..(3 * R) :
                  LET k == ((j - 1) % R) + 1
                  IN  /\ tm.X[S + j] =
                           extract_features_single(
                               bands(k).hz_4_6.v, bands(k).hz_6_8.v,
                               bands(k).hz_8_12.v, rms(k))
                      /\ tm.y[S + j] =
                           CLASS_TO_IDX[label_window_rule_based(
                               bands(k).hz_4_6.v, bands(k).hz_6_8.v,
                               bands(k).hz_8_12.v, rms(k))]
            /\ tm.pc \in {"save", "done"} => tm.fitted = <<tm.X, tm.y>>

\* C23 witness: a row that does not parse and one usable session: three
\* more samples than the synthetic set, all labeled essential
C23_Witness ==
    /\ Augmented
    /\ Len(db.rows) = 2
    /\ db.rows[1].raw_summary_json = CorruptText
    /\ Len(UsableRows) = 1
    /\ Len(tm.X) = Len(gen.X) + 3
    /\ tm.y[Len(gen.X) + 1] = CLASS_TO_IDX["essential"]
    /\ tm.y[Len(gen.X) + 3] = CLASS_TO_IDX["essential"]

\* call_medgemma is running or has produced its text
InCallMedgemma == call.op \in AnalyzeOps

\* the backend was tried with this outcome
Tried(b, outcome) == \E i \in 1..Len(call.tried) : call.tried[i] = <<b, outcome>>

\* C24: call_medgemma tries the Kaggle tunnel, then the hosted API, then
\* the placeholder: the hosted API is called only if the Kaggle URL is
\* unset or the Kaggle call failed, the placeholder is returned only if
\* every configured backend failed, and what is returned is always a text:
\* a backend's answer or the placeholder.
C24_BackendOrder ==
    InCallMedgemma =>
        /\ Len(call.tried) <= 2
        /\ Len(call.tried) = 2 =>
              (call.tried[1] = <<"kaggle", "failed">> /\ call.tried[2][1] = "hf")
        /\ (Tried("hf", "answered") \/ Tried("hf", "failed")) =>
              (~Configured("kaggle") \/ Tried("kaggle", "failed"))
        /\ \A b \in {"kaggle", "hf"} :
              (Tried(b, "answered") \/ Tried(b, "failed")) => Configured(b)
        /\ call.pc \in {"placeholder", "return"} =>
              \/ call.text = "kaggle_text" /\ Tried("kaggle", "answered")
              \/ call.text = "hf_text" /\ Tried("hf", "answered")
              \/ /\ call.text = IF call.pc = "return" THEN "placeholder"
                                 ELSE "none"
                 /\ \A b \in {"kaggle", "hf"} :
                       Configured(b) => Tried(b, "failed")

\* C24 witness: the Kaggle call failed and the hosted API answered
C24_Witness ==
    /\ InCallMedgemma
    /\ call.pc = "return"
    /\ call.tried = <<(<<"kaggle", "failed">>), (<<"hf", "answered">>)>>
    /\ call.text = "hf_text"

\* C25: store_session_direct uses the rule-based report exactly when no
\* model endpoint is reachable, a model's answer whenever some configured
\* endpoint is up, and then inserts exactly one row carrying that report.
C25_RuleBasedOnlyWhenUnreachable ==
    [][/\ DirectReport =>
            (call'.text = "rule_based") =
                (\A b \in {"kaggle", "hf"} : backends[b] # "up")
       /\ DirectPersist =>
            /\ Len(db'.rows) = Len(db.rows) + 1
            /\ SubSeq(db'.rows, 1, Len(db.rows)) = db.rows
            /\ db'.rows[Len(db'.rows)].clinical_summary = call.text]_vars

\* the rows stored with this session id
RowsOf(session_id) ==
    {i \in 1..Len(db.rows) : db.rows[i].session_id = session_id}

\* C30: a store_session or store_session_direct call adds exactly one row,
\* with an id above every earlier one, and nothing else changes the table;
\* list_sessions returns every row once, by timestamp then id;
\* get_session_detail returns the row of greatest id among those with the
\* asked session_id, and 404 exactly when there is none.
C30_SessionStore ==
    [][/\ db' # db =>
            /\ out'.kind = "stored"
            /\ db'.file
            /\ Len(db'.rows) = Len(db.rows) + 1
            /\ SubSeq(db'.rows, 1, Len(db.rows)) = db.rows
            /\ \A i \in 1..Len(db.rows) :
                  db.rows[i].id < db'.rows[Len(db'.rows)].id
            /\ out'.id = db'.rows[Len(db'.rows)].id
       /\ (out = NoOut /\ out'.kind = "stored") => db' # db
       /\ (out = NoOut /\ out'.kind = "list") =>
            /\ Len(out'.rows) = Len(db.rows)
            /\ \A i \in 1..Len(db.rows) :
                  Cardinality({j \in 1..Len(out'.rows) :
                                  out'.rows[j] = db.rows[i]}) = 1
            /\ \A i, j \in 1..Len(out'.rows) :
                  i < j =>
                    \/ out'.rows[i].timestamp < out'.rows[j].timestamp
                    \/ /\ out'.rows[i].timestamp = out'.rows[j].timestamp
                       /\ out'.rows[i].id < out'.rows[j].id
       /\ (out = NoOut /\ out'.kind = "detail") =>
            /\ \E i \in RowsOf(out'.asked) : db.rows[i] = out'.row
            /\ \A i \in RowsOf(out'.asked) : db.rows[i].id <= out'.row.id
       /\ (out = NoOut /\ out'.kind = "404") => RowsOf(out'.asked) = {}
      ]_vars

\* C30 witness: two rows stored under one session id, the later one with
\* the earlier timestamp, and get_session_detail answered with the second
C30_Witness ==
    /\ Len(db.rows) = 2
    /\ db.rows[1].session_id = "a"
    /\ db.rows[2].session_id = "a"
    /\ db.rows[1].timestamp > db.rows[2].timestamp
    /\ out.kind = "detail"
    /\ out.asked = "a"
    /\ out.row.id = 2

\* C26: a get_classifier that finds no artifact returns None and leaves the
\* cache empty, and a get_classifier that finds the cache empty goes to the
\* file: once a training job has written the artifact it loads it, caches
\* it and hands it to its caller, in the same process.
C26_UnavailableNotCached ==
    [][\A h \in Handlers :
          /\ (hs[h].pc = "gc_exists" /\ hs'[h].pc = "body") =>
                /\ artifact.st = "absent"
                /\ hs'[h].clf = None
                /\ cached_model' = None
          /\ (hs[h].pc = "gc_cache" /\ cached_model = None
                /\ hs'[h].pc # "gc_cache") => hs'[h].pc = "gc_exists"
          /\ (hs[h].pc = "gc_exists" /\ artifact.st # "absent"
                /\ hs'[h].pc # "gc_exists") => hs'[h].pc = "gc_load"
          /\ (hs[h].pc = "gc_load" /\ artifact.st = "complete"
                /\ hs'[h].pc # "gc_load") =>
                /\ cached_model' # None
                /\ cached_model'.ver = artifact.model.ver
                /\ hs'[h].clf = cached_model'
                /\ hs'[h].pc = "body"]_vars

\* C26 witness: on_startup found no model; a training job then wrote one,
\* and a classify_window in the same process has answered with it
C26_Witness ==
    /\ hs[0].pc = "exited"
    /\ hs[0].res = [kind |-> "startup", loaded |-> FALSE]
    /\ trainer.runs >= 1
    /\ cached_model # None
    /\ cached_model.ver >= 1
    /\ \E h \in Handlers :
          /\ hs[h].pc = "done"
          /\ hs[h].req.op = "classify_window"
          /\ hs[h].load = "complete"
          /\ hs[h].res.kind = "window"
          /\ hs[h].res.model_version = "rf_v1"

\* C27: when /ml/status answers, model_loaded and available are true
\* exactly when a model is cached in the process at that moment, which is
\* when classify_window and classify_batch use the Random Forest.
C27_StatusTellsModelPath ==
    [][\A h \in Handlers :
          (hs[h].pc = "body" /\ hs[h].req.op = "status"
              /\ hs'[h].pc = "done") =>
              /\ hs'[h].res.kind = "status"
              /\ hs'[h].res.model_loaded = (cached_model' # None)
              /\ hs'[h].res.available = (cached_model' # None)]_vars

\* p is no less than q, both fractions with positive denominators
FracGeq(p, q) == p[1] * q[2] >= q[1] * p[2]

\* C28: a classify_window result, from any loaded model or from the
\* fallback, has a probability for exactly the four classes, predicts a
\* class of largest probability, and has tremor_type "none" for no_tremor
\* and the prediction itself otherwise.
C28_ResultShape ==
    \A h \in Handlers :
        WindowDone(h) =>
            LET res == hs[h].res
            IN  /\ DOMAIN res.probabilities = ClassSet
                /\ res.prediction \in ClassSet
                /\ \A c \in ClassSet :
                      FracGeq(res.probabilities[res.prediction],
                              res.probabilities[c])
                /\ res.tremor_type = IF res.prediction = "no_tremor"
                                     THEN "none" ELSE res.prediction

\* C28 witness: a forest whose votes tie on a quiet window answers
\* no_tremor with tremor_type "none", and a fallback answer exists too
C28_Witness ==
    \E h \in Handlers :
        /\ WindowDone(h)
        /\ hs[h].clf # None
        /\ hs[h].clf.forest = "tied"
        /\ hs[h].res.prediction = "no_tremor"
        /\ hs[h].res.tremor_type = "none"
        /\ hs[h].res.probabilities["parkinsonian"] =
              hs[h].res.probabilities["no_tremor"]

\* the band, after noise-floor zeroing, that a tremor class names
ZeroedBandOf(class) ==
    CASE class = "parkinsonian" -> LabelBandsOf[1]
      [] class = "essential" -> LabelBandsOf[2]
      [] class = "physiological" -> LabelBandsOf[3]

\* C29: label_window_rule_based returns one of the four class labels, and
\* when the label is a tremor class its band, after noise-floor zeroing, is
\* positive and no smaller than either of the other two bands.
C29_LabelIsTopBand ==
    lres # "none" =>
        /\ lres \in ClassSet
        /\ lres # "no_tremor" =>
              /\ ZeroedBandOf(lres) > 0
              /\ \A i \in 1..3 : ZeroedBandOf(lres) >= LabelBandsOf[i]

\* C29 witness: (-0.1, 0.3, 0.3, 0.2), a negative band zeroed and the other
\* two tied at the dominance threshold, labelled essential
C29_Witness ==
    /\ lw = <<-100000, 300000, 300000, 200000>>
    /\ lres = "essential"
    /\ LabelBandsOf = <<0, 300000, 300000>>

====
